---- MODULE Spec2Model ----
(***************************************************************************)
(* State-machine model of the ztrader_v3 signal pipeline: the OHLCV sync   *)
(* scheduler (src/data/sync.py, src/data/downloader.py, storage.py), the   *)
(* scored strategy and its level planner (strategies/, indicators/), and   *)
(* the interactive on-demand analysis bot (notifications/, analysis/).     *)
(*                                                                         *)
(* Time is counted in quarter-hours of Asia/Kolkata wall-clock time; the   *)
(* instant 0 is a Monday 00:00.  Prices are integers in paise (0.01 INR);  *)
(* derived levels are kept exactly in 1/Scale of a paisa.                  *)
(***************************************************************************)
EXTENDS Integers, Sequences, FiniteSets, TLC

VARIABLES
    now,        \* datetime.now(ist), fixed during a run of the scheduler
    store,      \* ohlcv_data: (symbol, timeframe) -> set of candles
    batch,      \* the arguments sync_all_symbols is running with
    fut,        \* the executor's futures: task -> pending/running/done/collected
    fres,       \* future.result() of every finished task
    results,    \* the results dict of sync_all_symbols
    progress,   \* the [completed/total] progress lines printed so far
    fetched,    \* per task: what download_historical was asked and got
    nbatches,   \* number of sync_all_symbols calls so far
    prev,       \* the previous run of sync_all_symbols: when, how, what it synced
    frame,      \* the symbol under analysis: its candles' last row, its levels
    pc,         \* where generate_signals is with that symbol
    planned,    \* what generate_signal computed for it (before format_signal)
    all_signals, \* the list generate_signals returns
    clock,      \* datetime.now() of the bot process
    active,     \* telegram_users.is_active: the approved users
    waiting,    \* the users whose conversation is in WAITING_FOR_SYMBOL
    updates,    \* the Application's update queue (request ids, oldest first)
    requests,   \* every update received so far, and how it was answered
    received,   \* number of updates received so far
    tasks,      \* the handlers that are inside analyze_symbol, building
    cache,      \* OnDemandAnalyzer.cache
    inserted,   \* the calls of insert_ohlcv made so far, oldest first
    is_active,  \* telegram_users: the users whose is_active is true
    outbox,     \* send_all_notifications: the messages, the loop index, the counters
    sends,      \* the calls of send_message so far, oldest first
    calls,      \* the calls of bot.send_message so far, oldest first
    enrich,     \* the sentiment stage of main(): batch_enhance_signals and its clock
    waiter,     \* as_completed: the finished futures not yielded yet, in finishing
                \* order, and how many of them were finished when the loop
                \* started (-1 before it)
    fundamentals, \* the fundamentals table: symbol -> its row (the columns that are set)
    upserted,   \* the calls of upsert_fundamentals made so far, oldest first
    df_75m,     \* what the TimeframeResampler returned
    run         \* main() of daily_signals_scored.py: its arguments and where it is

syncVars == <<now, store, batch, fut, fres, results, progress, fetched, nbatches, prev, waiter>>

planVars == <<frame, pc, planned, all_signals>>

botVars == <<clock, active, waiting, updates, requests, received, tasks, cache>>

castVars == <<is_active, outbox, sends, calls>>

moreVars == <<inserted, castVars, enrich>>

lateVars == <<fundamentals, upserted, df_75m, run>>

vars == <<syncVars, planVars, botVars, moreVars, lateVars>>

----------------------------------------------------------------------------
(* Bounds of the model *)

MaxBatches == 2
MaxWorkers == 2
MaxReceived == 2
MaxTicks == 2

----------------------------------------------------------------------------
(* Time *)

Hour == 60 \div 15
Day == 24 * Hour
Week == 7 * Day

\* Monday 00:00 of the week the scheduler runs in (a whole number of weeks
\* after the instant 0, so that weekdays are preserved).
W0 == 60 * Week

At(d, h, q) == W0 + d * Day + h * Hour + q

weekday(t) == (t \div Day) % 7          \* 0 = Monday ... 6 = Sunday
hour(t) == (t % Day) \div Hour

Timeframes == {"1m", "5m", "15m", "30m", "1h", "1d", "1w"}

Symbols == {"A", "B", "C"}

Keys == Symbols \X Timeframes

----------------------------------------------------------------------------
(* The vendor (yfinance) *)

\* A period string: "7d" is P("d", 7), "1y" is P("y", 1), "max" is P("max", 0).
P(u, n) == [unit |-> u, n |-> n]

PeriodDays(p) == IF p.unit = "y" THEN 365 * p.n ELSE p.n

\* The instants at which the vendor has a candle (the same for every series).
VendorTimes ==
    { W0 - 400 * Day + 15 * Hour + 2,    \* more than a year back
      W0 - 40 * Day + 15 * Hour + 2,
      At(0 - 4, 15, 2),                  \* Thursday 15:30 of the week before
      At(0 - 3, 15, 2),                  \* Friday 15:30 of the week before
      At(1, 15, 2),                      \* Tuesday 15:30
      At(2, 12, 0),                      \* Wednesday 12:00
      At(3, 12, 0),                      \* Thursday 12:00
      At(3, 15, 2),                      \* Thursday 15:30
      At(4, 15, 2) }                     \* Friday 15:30

Candle(t) == [time |-> t, close |-> 100]

\* yf.download(symbol, period=period, interval=timeframe): the candles of the
\* window that ends at the real current time.
VendorWindow(p, t) ==
    { Candle(c) : c \in { v \in VendorTimes :
                            /\ v <= t
                            /\ (p.unit = "max" \/ v >= t - PeriodDays(p) * Day) } }

\* What a call of yf.download does: a frame (possibly empty), or an exception
\* whose text contains the substrings of msg.
Raise(m) == [kind |-> "raise", msg |-> m]
VendorOutcomes == { [kind |-> "ok", msg |-> {}], [kind |-> "empty", msg |-> {}], Raise({"timeout"}) }

\* The outcomes a batch of several tasks is run against.
BatchOutcomes == { [kind |-> "ok", msg |-> {}], Raise({"429"}), Raise({"expecting value"}) }

RateLimitedOutcomes == { Raise({"429"}), Raise({"expecting value"}) }

\* The database: a call succeeds or raises with a text containing msg.
DbOutcomes == { [kind |-> "ok", msg |-> {}], Raise({"connection"}) }

----------------------------------------------------------------------------
(* storage.py: OHLCVDB *)

SetMax(S) == CHOOSE x \in S : \A y \in S : y <= x

Min2(a, b) == IF a <= b THEN a ELSE b

Max2(a, b) == IF a >= b THEN a ELSE b

\* max(lo, min(hi, x))
Clamp(x, lo, hi) == Max2(lo, Min2(hi, x))

TimesOf(cs) == { c.time : c \in cs }

\* SELECT MAX(time): the set is empty (None) or holds the latest time.
get_latest_timestamp(cs) == IF cs = {} THEN {} ELSE { SetMax(TimesOf(cs)) }

\* A conflict target that includes the values: the rows of df not stored yet.
NewRows_by_value(cs, df) == { c \in df : c \notin cs }

\* INSERT ... ON CONFLICT (time, symbol, timeframe) DO NOTHING: the rows of df
\* whose time is not stored yet.
NewRows(cs, df) == { c \in df : c.time \notin TimesOf(cs) }

insert_ohlcv(cs, df) == [rows |-> Cardinality(NewRows(cs, df)), cs |-> cs \cup NewRows(cs, df)]

----------------------------------------------------------------------------
(* downloader.py: YFinanceDownloader *)

\* download_historical: every exception of the vendor call is caught, logged
\* and turned into an empty frame.
download_historical(p, t, vo) == IF vo.kind = "ok" THEN VendorWindow(p, t) ELSE {}

\* The classification download_historical writes to the log for an exception.
DownloadLogKind(vo) ==
    IF vo.kind # "raise" THEN "NONE"
    ELSE IF "429" \in vo.msg THEN "RATE LIMIT"
    ELSE IF "404" \in vo.msg THEN "NOT FOUND"
    ELSE IF "expecting value" \in vo.msg THEN "RATE LIMIT"
    ELSE IF "timeout" \in vo.msg THEN "TIMEOUT"
    ELSE IF "connection" \in vo.msg THEN "CONNECTION"
    ELSE "ERROR"

\* The outcome of one downloader call on the series cs: rows inserted, the
\* series afterwards, the periods it asked the vendor for, whether it skipped.
Out(rows, cs, req, skipped) == [rows |-> rows, cs |-> cs, req |-> req, skipped |-> skipped]

download_and_store(cs, p, t, vo) ==
    LET df == download_historical(p, t, vo)
    IN  IF df = {} THEN Out(0, cs, <<p>>, FALSE)
        ELSE Out(insert_ohlcv(cs, df).rows, insert_ohlcv(cs, df).cs, <<p>>, FALSE)

\* Weekends and Monday pre-market: use Friday as the last market day.
AdjustNow(t) ==
    IF weekday(t) = 5 THEN t - Day
    ELSE IF weekday(t) = 6 THEN t - 2 * Day
    ELSE IF weekday(t) = 0 /\ hour(t) < 9 THEN t - 3 * Day
    ELSE t

\* (now - latest_time).days
days_since(t, latest) == (AdjustNow(t) - latest) \div Day

\* if not force and days_since < 1: up to date
UpToDate(t, latest, force) == ~force /\ days_since(t, latest) < 1

\* update_latest_data without the "time > latest" filter, returning the
\* number of rows it downloaded.
update_latest_data_unfiltered(cs, force, t, vo) ==
    IF get_latest_timestamp(cs) = {}
    THEN download_and_store(cs, P("y", 1), t, vo)
    ELSE LET latest == SetMax(get_latest_timestamp(cs))
             p == P("d", Min2(days_since(t, latest) + 1, 30))
             df == download_historical(p, t, vo)
         IN  IF UpToDate(t, latest, force) THEN Out(0, cs, <<>>, TRUE)
             ELSE IF df = {} THEN Out(0, cs, <<p>>, FALSE)
             ELSE Out(Cardinality(df), insert_ohlcv(cs, df).cs, <<p>>, FALSE)

update_latest_data(cs, force, t, vo) ==
    IF get_latest_timestamp(cs) = {}
    THEN download_and_store(cs, P("y", 1), t, vo)
    ELSE LET latest == SetMax(get_latest_timestamp(cs))
             p == P("d", Min2(days_since(t, latest) + 1, 30))
             df == download_historical(p, t, vo)
             new == { c \in df : c.time > latest }
         IN  IF UpToDate(t, latest, force) THEN Out(0, cs, <<>>, TRUE)
             ELSE IF df = {} THEN Out(0, cs, <<p>>, FALSE)
             ELSE IF new = {} THEN Out(0, cs, <<p>>, FALSE)
             ELSE Out(insert_ohlcv(cs, new).rows, insert_ohlcv(cs, new).cs, <<p>>, FALSE)

----------------------------------------------------------------------------
(* sync.py: DataSync *)

_get_period_for_timeframe(tf) ==
    CASE tf = "1m" -> P("d", 7)
      [] tf \in {"5m", "15m", "30m"} -> P("d", 60)
      [] tf = "1h" -> P("d", 730)
      [] tf \in {"1d", "1w"} -> P("max", 0)
      [] OTHER -> P("y", 1)

\* The update thresholds of _needs_update.
thresholds(tf) ==
    CASE tf = "1m" -> 1 * Hour
      [] tf = "5m" -> 2 * Hour
      [] tf = "15m" -> 4 * Hour
      [] tf = "30m" -> 6 * Hour
      [] tf = "1h" -> 1 * Day
      [] tf = "1d" -> 1 * Day
      [] tf = "1w" -> 7 * Day
      [] OTHER -> 1 * Day

\* _needs_update(latest_time, timeframe), used by get_sync_status only.
_needs_update(cs, tf, t) ==
    IF get_latest_timestamp(cs) = {} THEN TRUE
    ELSE (t - SetMax(get_latest_timestamp(cs))) > thresholds(tf)

\* The error categories of sync_symbol's except clause.
Categorize(msg) ==
    IF "rate limit" \in msg \/ "expecting value" \in msg THEN "RATE_LIMIT"
    ELSE IF "not found" \in msg \/ "404" \in msg THEN "NOT_FOUND"
    ELSE IF "timeout" \in msg THEN "TIMEOUT"
    ELSE IF "connection" \in msg THEN "CONNECTION"
    ELSE "OTHER"

Result(k, status, rows, type, et) ==
    [symbol |-> k[1], timeframe |-> k[2], status |-> status, rows |-> rows,
     type |-> type, error_type |-> et]

\* sync_symbol on the series cs of key k: the result dict and the series
\* afterwards.  dbo is what the database does in this call: an exception of
\* the database is the only one that reaches the except clause.
sync_symbol(k, cs, full_download, force, t, vo, dbo) ==
    LET o == IF full_download
             THEN download_and_store(cs, _get_period_for_timeframe(k[2]), t, vo)
             ELSE update_latest_data(cs, force, t, vo)
    IN  IF dbo.kind = "raise"
        THEN [res |-> Result(k, "error", 0, "", Categorize(dbo.msg)),
              cs |-> cs, req |-> <<>>, skipped |-> FALSE]
        ELSE [res |-> Result(k, "success", o.rows,
                             IF full_download THEN "full" ELSE "incremental", ""),
              cs |-> o.cs, req |-> o.req, skipped |-> o.skipped]

----------------------------------------------------------------------------
(* The states of the parts that a specification leaves alone *)

NoFrame == [symbol |-> "", ncandles |-> 0, timeframe |-> "", min_confidence |-> 0]

NoPlan == [entry |-> 0, stop_loss |-> 0, tps |-> <<>>, anchored |-> 0]

PlanIdle ==
    /\ frame = NoFrame
    /\ pc = "idle"
    /\ planned = NoPlan
    /\ all_signals = <<>>

\* A request: the update, and the record of how it was answered.  during is
\* the request whose build of the same symbol was in progress on arrival (0
\* for none), started and ended the clock when the handler took it and when
\* it answered, from the request whose build made the analysis sent.
NoRequest ==
    [user |-> "", kind |-> "", symbol |-> "", during |-> 0, outcome |-> "",
     from |-> 0, started |-> 0, ended |-> 0]

BotIdle ==
    /\ clock = 0
    /\ active = {}
    /\ waiting = {}
    /\ updates = <<>>
    /\ requests = [i \in 1..MaxReceived |-> NoRequest]
    /\ received = 0
    /\ tasks = {}
    /\ cache = {}

----------------------------------------------------------------------------
(* sync.py: sync_all_symbols, and its callers *)

NoResult == Result(<<"", "">>, "", 0, "", "")

NoFetch == [vo |-> [kind |-> "none", msg |-> {}], req |-> <<>>, skipped |-> FALSE,
            before |-> {}, after |-> {}]

NoBatch == [active |-> FALSE, entry |-> "", symbols |-> <<>>, tf |-> "",
            full_download |-> FALSE, force |-> FALSE, asked_force |-> FALSE,
            interrupted |-> FALSE]

NoResults == [total_tasks |-> 0, successful |-> 0, failed |-> 0, total_rows |-> 0,
              details |-> <<>>]

Range(q) == { q[i] : i \in 1..Len(q) }

\* The record of the previous run, kept for the calls whose repetition is
\* examined (entry "rerun"): its clock, timeframe and mode, the symbols whose
\* task completed (skipped as up to date, or fetched with the vendor and the
\* database answering) and those among them that fetched.
NoPrev == [now |-> 0, tf |-> "", full_download |-> FALSE, done |-> {}, fetched |-> {}]

NoOutbox ==
    [broadcast_to_users |-> FALSE, signals |-> <<>>, subscribers |-> {}, messages |-> <<>>,
     priorities |-> <<>>, i |-> 0, phase |-> "", sent |-> 0, priority_sent |-> 0,
     failed |-> 0]

CastIdle ==
    /\ is_active = {}
    /\ outbox = NoOutbox
    /\ sends = <<>>
    /\ calls = <<>>

NoEnrich ==
    [entry |-> "", timeframe |-> "", signals |-> <<>>, i |-> 0, enhanced |-> <<>>,
     raised |-> {}, t |-> 0, llm |-> <<>>, fetched |-> <<>>, phase |-> ""]

NoRun ==
    [args |-> <<>>, phase |-> "", i |-> 0, insufficient |-> 0, errors |-> 0,
     signals |-> <<>>, printed |-> <<>>, summary |-> <<>>, stats |-> <<>>]

LateIdle ==
    /\ fundamentals = <<>>
    /\ upserted = <<>>
    /\ df_75m = <<>>
    /\ run = NoRun

MoreIdle ==
    /\ inserted = <<>>
    /\ CastIdle
    /\ enrich = NoEnrich
    /\ LateIdle

NoWaiter == [finished_futures |-> <<>>, initial |-> 0 - 1]

Idle ==
    /\ batch = NoBatch
    /\ waiter = NoWaiter
    /\ prev = NoPrev
    /\ fut = [s \in Symbols |-> "none"]
    /\ fres = [s \in Symbols |-> NoResult]
    /\ fetched = [s \in Symbols |-> NoFetch]
    /\ results = NoResults
    /\ progress = <<>>

SyncIdle ==
    /\ now = W0
    /\ store = [k \in Keys |-> {}]
    /\ nbatches = 0
    /\ Idle

\* The series every symbol starts with: nothing, or the vendor's candles up to
\* some earlier sync.
Prefix(l) == { Candle(v) : v \in { x \in VendorTimes : x <= l } }

InitSyncWith(nows, latests) ==
    /\ PlanIdle
    /\ BotIdle
    /\ MoreIdle
    /\ now \in nows
    /\ \E l \in latests :
          /\ l <= now
          /\ store = [k \in Keys |-> Prefix(l)]
    /\ nbatches = 0
    /\ Idle

\* sync_all_symbols(timeframes=[tf], symbols, full_download, period, force):
\* builds the results dict and submits one sync_symbol per (symbol, timeframe).
sync_all_symbols(entry, syms, tf, full_download, force, asked) ==
    /\ ~batch.active
    /\ nbatches < MaxBatches
    /\ nbatches' = nbatches + 1
    /\ batch' = [active |-> TRUE, entry |-> entry, symbols |-> syms, tf |-> tf,
                 full_download |-> full_download, force |-> force,
                 asked_force |-> asked, interrupted |-> FALSE]
    /\ fut' = [s \in Symbols |-> IF s \in Range(syms) THEN "pending" ELSE "none"]
    /\ fres' = [s \in Symbols |-> NoResult]
    /\ fetched' = [s \in Symbols |-> NoFetch]
    /\ results' = [NoResults EXCEPT !.total_tasks = Len(syms)]
    /\ progress' = <<>>
    /\ waiter' = NoWaiter
    /\ UNCHANGED <<now, store, prev, planVars, botVars, moreVars, lateVars>>

\* sync_timeframe(timeframe, symbols, full_download, period): it has no force
\* parameter and passes none on.
sync_timeframe(entry, syms, tf, full_download, asked) ==
    sync_all_symbols(entry, syms, tf, full_download, FALSE, asked)

\* scripts/sync/sync_data.py main with --full / --update / --force and
\* --timeframe tf (args.timeframe defaults to '1d', so it is always set).
main(syms, tf, full, update, force) ==
    /\ full \/ update
    /\ IF tf # ""
       THEN sync_timeframe("main", syms, tf, full \/ ~update, force)
       ELSE sync_all_symbols("main", syms, tf, full \/ ~update, force, force)

\* A direct call of DataSync.sync_all_symbols (as test_sync.py does).
api(syms, tf, full_download, force) ==
    sync_all_symbols("api", syms, tf, full_download, force, force)

\* The same call, made again later by the same script.
rerun(syms, tf, full_download, force) ==
    sync_all_symbols("rerun", syms, tf, full_download, force, force)

Running == { s \in Symbols : fut[s] = "running" }

\* The executor hands the next submitted task to a free worker.
TaskStart ==
    /\ batch.active
    /\ Cardinality(Running) < MaxWorkers
    /\ \E i \in 1..Len(batch.symbols) :
          /\ fut[batch.symbols[i]] = "pending"
          /\ \A j \in 1..(i - 1) : fut[batch.symbols[j]] # "pending"
          /\ fut' = [fut EXCEPT ![batch.symbols[i]] = "running"]
    /\ UNCHANGED <<now, store, batch, fres, results, progress, fetched, nbatches, prev, waiter,
                   planVars, botVars, moreVars, lateVars>>

\* A worker runs sync_symbol to its end.
TaskFinish(s, vo, dbo) ==
    /\ fut[s] = "running"
    /\ LET k == <<s, batch.tf>>
           r == sync_symbol(k, store[k], batch.full_download, batch.force, now, vo, dbo)
       IN  /\ store' = [store EXCEPT ![k] = r.cs]
           /\ fres' = [fres EXCEPT ![s] = r.res]
           /\ fetched' = [fetched EXCEPT ![s] =
                            [vo |-> IF r.req = <<>> THEN NoFetch.vo ELSE vo,
                             req |-> r.req, skipped |-> r.skipped,
                             before |-> store[k], after |-> r.cs]]
    /\ fut' = [fut EXCEPT ![s] = "done"]
    /\ waiter' = [waiter EXCEPT !.finished_futures = Append(@, s)]
    /\ UNCHANGED <<now, batch, results, progress, nbatches, prev, planVars, botVars, moreVars, lateVars>>

\* A variant of Yieldable that hands the finished futures over in submission
\* order.
InSubmissionOrder(s, p) ==
    \E i \in 1..Len(batch.symbols) :
        /\ batch.symbols[i] = s
        /\ \A j \in 1..(i - 1) : fut[batch.symbols[j]] # "done"

\* concurrent.futures.as_completed, the first p of the finished futures it
\* has not yielded yet having been finished when the loop started: it yields
\* those first, in the order of a set, then the others in the order in which
\* they finish.
Yieldable(s, p) ==
    IF p > 0
    THEN \E n \in 1..p : waiter.finished_futures[n] = s
    ELSE waiter.finished_futures # <<>> /\ Head(waiter.finished_futures) = s

\* One iteration of the as_completed loop: account the result, print progress.
Collect(s) ==
    /\ ~batch.interrupted
    /\ fut[s] = "done"
    /\ \E p \in (IF waiter.initial < 0 THEN 0..Len(waiter.finished_futures)
                                      ELSE {waiter.initial}) :
          /\ Yieldable(s, p)
          /\ waiter' = [finished_futures |-> SelectSeq(waiter.finished_futures,
                                                       LAMBDA x : x # s),
                        initial |-> IF p > 0 THEN p - 1 ELSE 0]
    /\ fut' = [fut EXCEPT ![s] = "collected"]
    /\ results' =
          [results EXCEPT
              !.details = Append(@, fres[s]),
              !.successful = IF fres[s].status = "success" THEN @ + 1 ELSE @,
              !.total_rows = IF fres[s].status = "success" THEN @ + fres[s].rows ELSE @,
              !.failed = IF fres[s].status = "success" THEN @ ELSE @ + 1]
    /\ progress' = Append(progress, Len(progress) + 1)
    /\ UNCHANGED <<now, store, batch, fres, fetched, nbatches, prev, planVars, botVars, moreVars, lateVars>>

AllCollected == batch.active /\ \A s \in Range(batch.symbols) : fut[s] = "collected"

\* sync_all_symbols returns; the next call starts from a fresh results dict.
Return ==
    /\ AllCollected
    /\ ~batch.interrupted
    /\ batch' = NoBatch
    /\ fut' = [s \in Symbols |-> "none"]
    /\ fres' = [s \in Symbols |-> NoResult]
    /\ fetched' = [s \in Symbols |-> NoFetch]
    /\ results' = NoResults
    /\ progress' = <<>>
    /\ waiter' = NoWaiter
    /\ prev' = IF batch.entry # "rerun" THEN prev
               ELSE [now |-> now, tf |-> batch.tf, full_download |-> batch.full_download,
                     done |-> { s \in Range(batch.symbols) :
                                  /\ fres[s].status = "success"
                                  /\ fetched[s].skipped \/ fetched[s].vo.kind = "ok" },
                     fetched |-> { s \in Range(batch.symbols) :
                                     /\ fres[s].status = "success"
                                     /\ ~fetched[s].skipped
                                     /\ fetched[s].vo.kind = "ok" }]
    /\ UNCHANGED <<now, store, nbatches, planVars, botVars, moreVars, lateVars>>

----------------------------------------------------------------------------
(* The scheduler on a batch of three symbols *)

InitSync == InitSyncWith({At(2, 14, 0)}, {0, At(0 - 3, 15, 2)})

NextSync ==
    \/ \E full \in BOOLEAN, update \in BOOLEAN, force \in BOOLEAN :
          main(<<"A", "B", "C">>, "1d", full, update, force)
    \/ \E full \in BOOLEAN, force \in BOOLEAN :
          api(<<"A", "B", "C">>, "1d", full, force)
    \/ TaskStart
    \/ \E s \in Symbols, vo \in BatchOutcomes, dbo \in DbOutcomes : TaskFinish(s, vo, dbo)
    \/ \E s \in Symbols : Collect(s)
    \/ Return

SpecSync == InitSync /\ [][NextSync]_vars

(* A batch that is interrupted *)

\* KeyboardInterrupt reaches the main thread inside the as_completed loop,
\* the only way to cancel a batch: the loop is left and the with statement
\* calls executor.shutdown(wait=True), which cancels no future.
KeyboardInterrupt ==
    /\ batch.active
    /\ ~batch.interrupted
    /\ ~AllCollected
    /\ batch' = [batch EXCEPT !.interrupted = TRUE]
    /\ UNCHANGED <<now, store, fut, fres, results, progress, fetched, nbatches, prev, waiter,
                   planVars, botVars, moreVars, lateVars>>

\* shutdown(wait=True) returns once the workers have run every submitted
\* task; the exception leaves sync_all_symbols, and its results with it.
ShutdownReturns ==
    /\ batch.interrupted
    /\ \A s \in Range(batch.symbols) : fut[s] \in {"done", "collected"}
    /\ batch' = NoBatch
    /\ fut' = [s \in Symbols |-> "none"]
    /\ fres' = [s \in Symbols |-> NoResult]
    /\ fetched' = [s \in Symbols |-> NoFetch]
    /\ results' = NoResults
    /\ progress' = <<>>
    /\ waiter' = NoWaiter
    /\ UNCHANGED <<now, store, nbatches, prev, planVars, botVars, moreVars, lateVars>>

InitCancel == InitSyncWith({At(2, 14, 0)}, {0})

NextCancel ==
    \/ api(<<"A", "B", "C">>, "1d", TRUE, FALSE)
    \/ TaskStart
    \/ \E s \in Symbols, dbo \in DbOutcomes : TaskFinish(s, [kind |-> "ok", msg |-> {}], dbo)
    \/ \E s \in Symbols : Collect(s)
    \/ KeyboardInterrupt
    \/ ShutdownReturns
    \/ Return

SpecCancel == InitCancel /\ [][NextCancel]_vars

(* A full download of three symbols *)

InitProgress == InitSyncWith({At(2, 14, 0)}, {0})

NextProgress ==
    \/ api(<<"A", "B", "C">>, "1d", TRUE, FALSE)
    \/ TaskStart
    \/ \E s \in Symbols, vo \in { [kind |-> "ok", msg |-> {}], Raise({"429"}) },
          dbo \in DbOutcomes : TaskFinish(s, vo, dbo)
    \/ \E s \in Symbols : Collect(s)
    \/ Return

SpecProgress == InitProgress /\ [][NextProgress]_vars

(* One task at a time, over every timeframe and a range of clock times *)

NowSet ==
    { At(2, 14, 0),     \* Wednesday 14:00
      At(5, 10, 0),     \* Saturday 10:00
      At(6, 20, 0),     \* Sunday 20:00
      At(0, 7, 0),      \* Monday 07:00
      At(0, 9, 0),      \* Monday 09:00
      At(0, 9, 1) }     \* Monday 09:15

InitStale == InitSyncWith(NowSet, {0} \cup VendorTimes)

NextStale ==
    \/ \E tf \in Timeframes, full \in BOOLEAN, update \in BOOLEAN, force \in BOOLEAN :
          main(<<"A">>, tf, full, update, force)
    \/ \E tf \in Timeframes, full \in BOOLEAN, force \in BOOLEAN :
          api(<<"A">>, tf, full, force)
    \/ TaskStart
    \/ \E vo \in VendorOutcomes, dbo \in DbOutcomes : TaskFinish("A", vo, dbo)
    \/ Collect("A")
    \/ Return

SpecStale == InitStale /\ [][NextStale]_vars

----------------------------------------------------------------------------
(* Two runs of the scheduler, the second one at the same or a later time *)

\* Monday 10:00, Wednesday 15:45, Thursday 16:00
LaterNows == { At(0, 10, 0), At(2, 15, 3), At(3, 16, 0) }

\* Time passes between two runs.
ClockAdvances(t) ==
    /\ ~batch.active
    /\ t > now
    /\ now' = t
    /\ UNCHANGED <<store, batch, fut, fres, results, progress, fetched, nbatches, prev, waiter,
                   planVars, botVars, moreVars, lateVars>>

\* The first run is on the Sunday before at 10:00 or on Wednesday at 14:00.
InitRerun ==
    InitSyncWith({At(0 - 1, 10, 0), At(2, 14, 0)},
                 {0, At(0 - 4, 15, 2), At(0 - 3, 15, 2), At(1, 15, 2)})

NextRerun ==
    \/ \E tf \in {"15m", "1d"}, force \in BOOLEAN : rerun(<<"A">>, tf, FALSE, force)
    \/ \E t \in LaterNows : ClockAdvances(t)
    \/ TaskStart
    \/ \E vo \in VendorOutcomes, dbo \in DbOutcomes : TaskFinish("A", vo, dbo)
    \/ Collect("A")
    \/ Return

SpecRerun == InitRerun /\ [][NextRerun]_vars

----------------------------------------------------------------------------
(* storage.py: insert_ohlcv called directly on two series *)

MaxInserts == 3

InsertKeys == { <<"A", "1d">>, <<"A", "1h">> }

InsertTimes == { At(1, 15, 2), At(2, 12, 0) }

\* The frames handed to insert_ohlcv: at most one row per time, with one of
\* two close values.
InsertFrames ==
    { df \in SUBSET [time : InsertTimes, close : {100, 101}] :
        \A c, d \in df : c.time = d.time => c = d }

\* One call insert_ohlcv(symbol, timeframe, df).
InsertCall(k, df) ==
    /\ Len(inserted) < MaxInserts
    /\ store' = [store EXCEPT ![k] = insert_ohlcv(@, df).cs]
    /\ inserted' = Append(inserted, [key |-> k, df |-> df, before |-> store[k],
                                     rows |-> insert_ohlcv(store[k], df).rows,
                                     after |-> insert_ohlcv(store[k], df).cs])
    /\ UNCHANGED <<now, batch, fut, fres, results, progress, fetched, nbatches, prev, waiter,
                   planVars, botVars, castVars, enrich, lateVars>>

InitInsert ==
    /\ PlanIdle /\ BotIdle /\ Idle /\ CastIdle /\ LateIdle
    /\ enrich = NoEnrich
    /\ now = W0
    /\ nbatches = 0
    /\ inserted = <<>>
    /\ \E cs \in { {}, {Candle(At(1, 15, 2))} } :
          store = [k \in Keys |-> IF k \in InsertKeys THEN cs ELSE {}]

NextInsert == \E k \in InsertKeys, df \in InsertFrames : InsertCall(k, df)

SpecInsert == InitInsert /\ [][NextInsert]_vars

----------------------------------------------------------------------------
(* notifications/telegram.py: TelegramNotifier, as main() of the daily
   signal scripts drives it.  Confidences in hundredths of a point. *)

MaxMessages == 2

Subscribers == { "u1", "u2" }

\* SELECT ... FROM telegram_users ORDER BY first_seen DESC
UserOrder == <<"u2", "u1">>

\* get_all_users(): one dict per row of telegram_users; [] when the database
\* raises.
get_all_users(dbo) ==
    IF dbo.kind = "raise" THEN <<>>
    ELSE [n \in 1..Len(UserOrder) |->
            [user_id |-> UserOrder[n], is_active |-> UserOrder[n] \in is_active]]

\* What one call of bot.send_message does: it returns, raises a TelegramError,
\* or raises another exception.
SendOutcomes == { "ok", "TelegramError", "Exception" }

BotCall(chat_id, text, outcome) == [chat_id |-> chat_id, text |-> text, ok |-> outcome = "ok"]

\* The loop "for user in active_users" from its n-th user on.  Evaluating
\* user['telegram_user_id'] on a dict without that key raises KeyError, which
\* "except TelegramError" does not catch: the loop is left (raised).
RECURSIVE BroadcastFrom(_, _, _, _)
BroadcastFrom(active_users, n, text, out) ==
    IF n > Len(active_users)
    THEN [calls |-> <<>>, success_count |-> 0, raised |-> FALSE]
    ELSE IF "telegram_user_id" \notin DOMAIN active_users[n]
    THEN [calls |-> <<>>, success_count |-> 0, raised |-> TRUE]
    ELSE LET call == BotCall(active_users[n].telegram_user_id, text, out[n])
             rest == BroadcastFrom(active_users, n + 1, text, out)
         IN  IF out[n] = "Exception"
             THEN [calls |-> <<call>>, success_count |-> 0, raised |-> TRUE]
             ELSE [calls |-> <<call>> \o rest.calls,
                   success_count |-> rest.success_count + (IF out[n] = "ok" THEN 1 ELSE 0),
                   raised |-> rest.raised]

\* send_message(message, priority): what it returns and the calls of
\* bot.send_message it makes.  Every exception ends in "return False".
send_message(broadcast_to_users, message, priority, dbo, out) ==
    LET text == [body |-> message, marker |-> priority]
        users == get_all_users(dbo)
        active_users == SelectSeq(users, LAMBDA u : u.is_active)
        b == BroadcastFrom(active_users, 1, text, out)
    IN  IF broadcast_to_users
        THEN IF Len(active_users) = 0 THEN [ret |-> FALSE, calls |-> <<>>]
             ELSE IF b.raised THEN [ret |-> FALSE, calls |-> b.calls]
             ELSE [ret |-> b.success_count > 0, calls |-> b.calls]
        ELSE [ret |-> out[1] = "ok", calls |-> <<BotCall("TELEGRAM_CHAT_ID", text, out[1])>>]

\* A variant of zipped that hands out the priority messages first.
priority_first(messages, priorities) ==
    LET z == [n \in 1..Len(messages) |-> [message |-> messages[n], priority |-> priorities[n]]]
    IN  SelectSeq(z, LAMBDA m : m.priority) \o SelectSeq(z, LAMBDA m : ~m.priority)

\* zip(messages, priorities), which send_messages enumerates.
zipped(messages, priorities) ==
    [n \in 1..Len(messages) |-> [message |-> messages[n], priority |-> priorities[n]]]

\* main(): the signals that pass the confidence filter, in the order of the
\* list; messages and priorities are built from them.
Notified(signals) == SelectSeq(signals, LAMBDA g : g.confidence >= 6500)

format_messages(signals) == [n \in 1..Len(Notified(signals)) |-> Notified(signals)[n].symbol]

format_priorities(signals) ==
    [n \in 1..Len(Notified(signals)) |-> Notified(signals)[n].confidence > 9000]

\* One iteration of the loop of send_messages.
send_messages(dbo, out) ==
    /\ outbox.phase = "messages"
    /\ outbox.i < Len(outbox.messages)
    /\ LET m == zipped(outbox.messages, outbox.priorities)[outbox.i + 1]
           r == send_message(outbox.broadcast_to_users, m.message, m.priority, dbo, out)
       IN  /\ outbox' = [outbox EXCEPT
                           !.i = @ + 1,
                           !.sent = IF r.ret THEN @ + 1 ELSE @,
                           !.priority_sent = IF r.ret /\ m.priority THEN @ + 1 ELSE @,
                           !.failed = IF r.ret THEN @ ELSE @ + 1]
           /\ sends' = Append(sends, [message |-> m.message, priority |-> m.priority,
                                      ret |-> r.ret, active |-> is_active])
           /\ calls' = calls \o r.calls
    /\ UNCHANGED <<is_active, inserted, enrich, syncVars, planVars, botVars, lateVars>>

\* send_messages returns its statistics and send_summary sends the summary.
send_summary(dbo, out) ==
    /\ outbox.phase = "messages"
    /\ outbox.i = Len(outbox.messages)
    /\ LET r == send_message(outbox.broadcast_to_users, "summary", FALSE, dbo, out)
       IN  /\ outbox' = [outbox EXCEPT !.phase = "done"]
           /\ sends' = Append(sends, [message |-> "summary", priority |-> FALSE,
                                      ret |-> r.ret, active |-> is_active])
           /\ calls' = calls \o r.calls
    /\ UNCHANGED <<is_active, inserted, enrich, syncVars, planVars, botVars, lateVars>>

\* user_tracker.py: an administrator approves or deactivates a user while the
\* batch is being sent.
activate_user(u) ==
    /\ outbox.phase = "messages"
    /\ u \notin is_active
    /\ is_active' = is_active \cup {u}
    /\ UNCHANGED <<outbox, sends, calls, inserted, enrich, syncVars, planVars, botVars, lateVars>>

deactivate_user(u) ==
    /\ outbox.phase = "messages"
    /\ u \in is_active
    /\ is_active' = is_active \ {u}
    /\ UNCHANGED <<outbox, sends, calls, inserted, enrich, syncVars, planVars, botVars, lateVars>>

\* The lists of signals the pipeline hands to main(): one signal per symbol,
\* in the order in which the pipeline finished the symbols (A, then B, then C).
SignalLists ==
    { g \in UNION { [1..n -> [symbol : Symbols, confidence : {6000, 7000, 9500}]] :
                      n \in 1..Min2(MaxMessages, 3) } :
        \A a \in DOMAIN g : g[a].symbol = <<"A", "B", "C">>[a] }

InitCast ==
    /\ SyncIdle /\ PlanIdle /\ BotIdle /\ LateIdle
    /\ inserted = <<>>
    /\ enrich = NoEnrich
    /\ is_active \in SUBSET Subscribers
    /\ sends = <<>>
    /\ calls = <<>>
    /\ \E signals \in SignalLists, broadcast_to_users \in BOOLEAN :
          outbox = [broadcast_to_users |-> broadcast_to_users,
                    signals |-> signals,
                    subscribers |-> is_active,
                    messages |-> format_messages(signals),
                    priorities |-> format_priorities(signals),
                    i |-> 0, phase |-> "messages",
                    sent |-> 0, priority_sent |-> 0, failed |-> 0]

NextCast ==
    \/ \E dbo \in DbOutcomes, out \in [1..Cardinality(Subscribers) -> SendOutcomes] :
          send_messages(dbo, out)
    \/ \E dbo \in DbOutcomes, out \in [1..Cardinality(Subscribers) -> SendOutcomes] :
          send_summary(dbo, out)
    \/ \E u \in Subscribers : activate_user(u)
    \/ \E u \in Subscribers : deactivate_user(u)

SpecCast == InitCast /\ [][NextCast]_vars

----------------------------------------------------------------------------
(* analysis/sentiment.py: NewsSentimentAnalyzer, as main() of the daily signal
   scripts drives it.  Confidences in hundredths of a point, time in seconds. *)

MaxSignals == 3

\* The IMPACT line of an LLM response: absent, not an integer ("high",
\* "12.5", "+15%"), or an integer.
ImpactLines ==
    { [kind |-> "missing", n |-> 0], [kind |-> "text", n |-> 0] }
        \cup { [kind |-> "int", n |-> n] : n \in {0 - 50, 12, 50} }

\* _parse_response without the clamp of the impact.
_parse_response_unclamped(line) == IF line.kind = "int" THEN line.n ELSE 0

\* _parse_response(response_text)['impact']: 0 unless an IMPACT line parses
\* as an integer, which is clamped to [-20, 20].
_parse_response(line) ==
    IF line.kind = "int" THEN Clamp(line.n, 0 - 20, 20) ELSE 0

\* What a call of the LLM does: it answers with a text, or raises.
LlmOutcomes == { [kind |-> "ok", line |-> l] : l \in ImpactLines }
                  \cup { [kind |-> "raise", line |-> [kind |-> "missing", n |-> 0]] }

\* get_news_sentiment(symbol)['impact'] and the number of LLM calls made:
\* no call without news; every exception gives the neutral result.
get_news_sentiment(news, lo) ==
    IF ~news THEN [impact |-> 0, ncalls |-> 0]
    ELSE IF lo.kind = "raise" THEN [impact |-> 0, ncalls |-> 1]
    ELSE [impact |-> _parse_response(lo.line), ncalls |-> 1]

\* get_news_sentiment(symbol, timeframe): the days_back it hands to
\* _fetch_google_news.
days_back(timeframe) == IF timeframe = "75m" THEN 1 ELSE 3

\* The seconds a call of the LLM takes: none, which is the least it can take
\* and brings two calls closest to each other.
LlmSeconds == { 0 }

\* What analyze_technical_indicators does: it builds the prompt and calls the
\* LLM ("ok", or "error" when the call raises, which it catches), or raises
\* while it builds the prompt ("raise").
TechOutcomes == { "ok", "error", "raise" }

\* A variant of enhance_signal that does not clamp the adjusted confidence.
enhance_signal_unclamped(signal, news, lo, tech) ==
    LET sentiment == get_news_sentiment(news, lo)
        original_confidence == signal.confidence
    IN  [signal |-> [signal EXCEPT !.sentiment = TRUE,
                                   !.original_confidence = original_confidence,
                                   !.confidence = original_confidence + 100 * sentiment.impact,
                                   !.sentiment_adjusted = sentiment.impact,
                                   !.technical_analysis = (tech # "raise")],
         raised |-> tech = "raise",
         ncalls |-> sentiment.ncalls + (IF tech = "raise" THEN 0 ELSE 1)]

\* enhance_signal(signal, include_technical=True): the signal it has written
\* to, whether it raised, and the number of LLM calls it made.
enhance_signal(signal, news, lo, tech) ==
    LET sentiment == get_news_sentiment(news, lo)
        original_confidence == signal.confidence
        adjusted_confidence == Clamp(original_confidence + 100 * sentiment.impact, 0, 10000)
    IN  [signal |-> [signal EXCEPT !.sentiment = TRUE,
                                   !.original_confidence = original_confidence,
                                   !.confidence = adjusted_confidence,
                                   !.sentiment_adjusted = sentiment.impact,
                                   !.technical_analysis = (tech # "raise")],
         raised |-> tech = "raise",
         ncalls |-> sentiment.ncalls + (IF tech = "raise" THEN 0 ELSE 1)]

\* The except clause of batch_enhance_signals appending what enhance_signal
\* has written to, instead of the signal it was given a copy of.
kept_written(signal, e) == e.signal

\* What one iteration of batch_enhance_signals appends to enhanced:
\* enhance_signal works on signal.copy(), the except clause appends signal.
kept(signal, e) == IF e.raised THEN signal ELSE e.signal

\* time.sleep(7) is reached when enhance_signal returned and
\* i < len(signals) - 1, i counting from 1.
Sleeps(i, n, e) == ~e.raised /\ i < n - 1

\* main(): analyzer = NewsSentimentAnalyzer(...).  daily_signals_scored.py
\* passes compact_mode=True, which __init__(self, provider='auto') does not
\* accept (TypeError); without a configured provider __init__ raises
\* ValueError.  main() catches both and keeps its signals.
NewsSentimentAnalyzer(configured) ==
    /\ enrich.phase = "main"
    /\ enrich' = [enrich EXCEPT
                    !.phase = IF enrich.entry = "daily_signals_scored" \/ ~configured
                              THEN "failed" ELSE "batch"]
    /\ UNCHANGED <<inserted, castVars, syncVars, planVars, botVars, lateVars>>

\* One iteration of the loop of batch_enhance_signals.  main() calls
\* analyzer.batch_enhance_signals(signals): timeframe has its default, '1d',
\* which enhance_signal hands to get_news_sentiment.
batch_enhance_signals(news, lo, tech, d) ==
    /\ enrich.phase = "batch"
    /\ enrich.i < Len(enrich.signals)
    /\ LET i == enrich.i + 1
           signal == enrich.signals[i]
           timeframe == "1d"
           e == enhance_signal(signal, news, lo, tech)
       IN  enrich' = [enrich EXCEPT
                        !.i = i,
                        !.fetched = Append(@, days_back(timeframe)),
                        !.enhanced = Append(@, kept(signal, e)),
                        !.raised = IF e.raised THEN @ \cup {i} ELSE @,
                        !.llm = @ \o [k \in 1..e.ncalls |-> enrich.t + (k - 1) * d],
                        !.t = @ + e.ncalls * d
                                + (IF Sleeps(i, Len(enrich.signals), e) THEN 7 ELSE 0)]
    /\ UNCHANGED <<inserted, castVars, syncVars, planVars, botVars, lateVars>>

\* batch_enhance_signals returns enhanced, which main() takes as its signals.
batch_return ==
    /\ enrich.phase = "batch"
    /\ enrich.i = Len(enrich.signals)
    /\ enrich' = [enrich EXCEPT !.phase = "enhanced"]
    /\ UNCHANGED <<inserted, castVars, syncVars, planVars, botVars, lateVars>>

\* The signals main() displays and notifies after the sentiment stage.
MainSignals ==
    IF enrich.phase = "enhanced" THEN enrich.enhanced ELSE enrich.signals

\* The signals of the strategy, before the sentiment stage; the first one may
\* come from a run with a low --min-confidence.
BaseSignals ==
    { g \in UNION { [1..n -> [symbol : {"A", "B", "C", "D"}, confidence : {1500, 7000, 9500},
                              stop_loss : {9500}, target1 : {11000},
                              sentiment : {FALSE}, original_confidence : {0},
                              sentiment_adjusted : {0}, technical_analysis : {FALSE}]] :
                      n \in 1..MaxSignals } :
        \A a \in DOMAIN g :
            /\ g[a].symbol = <<"A", "B", "C", "D">>[a]
            /\ (g[a].confidence = 1500 => a = 1) }

InitEnrich ==
    /\ SyncIdle /\ PlanIdle /\ BotIdle /\ CastIdle /\ LateIdle
    /\ inserted = <<>>
    /\ \E entry \in {"daily_signals_scored", "daily_signals"}, signals \in BaseSignals,
          timeframe \in {"1d", "75m"} :
          enrich = [NoEnrich EXCEPT !.entry = entry, !.timeframe = timeframe,
                                    !.signals = signals, !.phase = "main"]

NextEnrich ==
    \/ \E configured \in BOOLEAN : NewsSentimentAnalyzer(configured)
    \/ \E news \in BOOLEAN, lo \in LlmOutcomes, tech \in TechOutcomes, d \in LlmSeconds :
          batch_enhance_signals(news, lo, tech, d)
    \/ batch_return

SpecEnrich == InitEnrich /\ [][NextEnrich]_vars

----------------------------------------------------------------------------
(* data/fundamentals.py: FundamentalsDownloader, storage.py: FundamentalsDB,
   as sync_fundamentals of scripts/daily_workflow.py drives them *)

MaxUpserts == 2

\* Two of the typed columns of FIELD_MAPPING, by their yfinance names.
FIELD_MAPPING == [trailingPE |-> "trailing_pe", marketCap |-> "market_cap"]

TypedFields == { FIELD_MAPPING[k] : k \in DOMAIN FIELD_MAPPING }

\* ticker.info: a dict with fewer than 5 entries ("short"), or one whose
\* fields are the mapped keys that have a value (info.get gives None for a key
\* that is missing and for one whose value is None); or the call raises.
Infos ==
    { [kind |-> "ok", fields |-> f] :
        f \in UNION { [D -> {18, 30}] : D \in SUBSET DOMAIN FIELD_MAPPING } }
      \cup { [kind |-> "short", fields |-> <<>>], [kind |-> "raise", fields |-> <<>>] }

\* download_fundamentals(symbol): {} for None, or the dict, as a set of
\* <<key, value>> pairs: the symbol, every mapped field whose value is not
\* None, raw_data and updated_at.
download_fundamentals(symbol, info, t) ==
    IF info.kind # "ok" THEN {}
    ELSE { <<"symbol", symbol>>, <<"raw_data", info.fields>>, <<"updated_at", t>> }
           \cup { <<FIELD_MAPPING[k], info.fields[k]>> : k \in DOMAIN info.fields }

Get(d, key) == (CHOOSE kv \in d : kv[1] = key)[2]

KeysOf(d) == { kv[1] : kv \in d }

\* INSERT INTO fundamentals (symbol, columns) VALUES (...) ON CONFLICT (symbol)
\* DO UPDATE SET column = EXCLUDED.column for the columns of the dict: the row
\* of the symbol afterwards.  A column that is NULL is absent from a row.
upsert_row(table, d) ==
    LET symbol == Get(d, "symbol")
        columns == KeysOf(d) \ {"symbol"}
        old == IF symbol \in DOMAIN table THEN table[symbol] ELSE <<>>
    IN  [c \in (DOMAIN old) \cup columns |-> IF c \in columns THEN Get(d, c) ELSE old[c]]

\* upsert_fundamentals(fundamentals): the table afterwards.
upsert_fundamentals(table, d) ==
    [s \in (DOMAIN table) \cup {Get(d, "symbol")} |->
        IF s = Get(d, "symbol") THEN upsert_row(table, d) ELSE table[s]]

\* One iteration of the loop of sync_fundamentals: download, and upsert what
\* was downloaded; an exception of the database is logged.
sync_fundamentals(symbol, info, dbo) ==
    /\ Len(upserted) < MaxUpserts
    /\ LET d == download_fundamentals(symbol, info, Len(upserted) + 1)
           stored == d # {} /\ dbo.kind = "ok"
       IN  /\ fundamentals' = IF stored THEN upsert_fundamentals(fundamentals, d)
                              ELSE fundamentals
           /\ upserted' = Append(upserted,
                                 [symbol |-> symbol, fundamentals |-> d, stored |-> stored,
                                  before |-> fundamentals, after |-> fundamentals'])
    /\ UNCHANGED <<df_75m, run, syncVars, planVars, botVars, moreVars>>

FundSymbols == { "A", "B" }

InitFund ==
    /\ SyncIdle /\ PlanIdle /\ BotIdle /\ MoreIdle

NextFund ==
    \E symbol \in FundSymbols, info \in Infos, dbo \in DbOutcomes :
       sync_fundamentals(symbol, info, dbo)

SpecFund == InitFund /\ [][NextFund]_vars
----------------------------------------------------------------------------
(* indicators/pivot_support_resistance.py: PivotSupportResistance *)

\* Prices are integers in 1/Scale of a paisa: halves for the risk multiples,
\* thirds for the pivot point, thousandths for the 0.997 and 0.99 factors.
\* Every price of a frame is a whole number of paise and every level derived
\* from one a whole number of thirds of a paisa, so the divisions below are
\* exact; they are made before the multiplications to stay within 32 bits.
Scale == 2 * 3 * 1000

Paise(n) == n * Scale

\* round(x, 2) of a price in rupees: to the nearest whole paisa, ties to even.
round2(x) ==
    LET q == x \div Scale
        r == x % Scale
    IN  IF 2 * r < Scale THEN q * Scale
        ELSE IF 2 * r > Scale THEN (q + 1) * Scale
        ELSE IF q % 2 = 0 THEN q * Scale ELSE (q + 1) * Scale

\* A variant of find_pivot_levels with s3 = l - 2 * (pp - h).
find_pivot_levels_s3_above_low(h, l, c) ==
    LET pp == (h + l + c) \div 3
    IN  [pp |-> pp,
         r1 |-> (2 * pp) - l,
         r2 |-> pp + (h - l),
         r3 |-> h + 2 * (pp - l),
         s1 |-> (2 * pp) - h,
         s2 |-> pp - (h - l),
         s3 |-> l - 2 * (pp - h)]

\* find_pivot_levels on the last candle (high h, low l, close c).
find_pivot_levels(h, l, c) ==
    LET pp == (h + l + c) \div 3
    IN  [pp |-> pp,
         r1 |-> (2 * pp) - l,
         r2 |-> pp + (h - l),
         r3 |-> h + 2 * (pp - l),
         s1 |-> (2 * pp) - h,
         s2 |-> pp - (h - l),
         s3 |-> l - 2 * (h - pp)]

\* Appending the pivot levels ps (in order) to the swing levels: one whose
\* rounded price was seen already is dropped.
RECURSIVE AddPivots(_, _)
AddPivots(levels, ps) ==
    IF ps = <<>> THEN levels
    ELSE IF round2(Head(ps)) \in { round2(x) : x \in levels }
         THEN AddPivots(levels, Tail(ps))
         ELSE AddPivots(levels \cup {Head(ps)}, Tail(ps))

\* find_resistance_levels / find_support_levels: the swing highs (lows) of the
\* rolling window, which are inputs here, and the pivot levels.
find_resistance_levels(swing_highs, h, l, c) ==
    LET pv == find_pivot_levels(h, l, c)
    IN  AddPivots(swing_highs, <<pv.r1, pv.r2, pv.r3>>)

find_support_levels(swing_lows, h, l, c) ==
    LET pv == find_pivot_levels(h, l, c)
    IN  AddPivots(swing_lows, <<pv.s1, pv.s2, pv.s3>>)

SetMin(S) == CHOOSE x \in S : \A y \in S : x <= y

\* A set of prices, ascending.
RECURSIVE Ascending(_)
Ascending(S) == IF S = {} THEN <<>> ELSE <<SetMin(S)>> \o Ascending(S \ {SetMin(S)})

\* get_nearest_support(price, min_distance=0.005): the highest support below
\* price * (1 - 0.005), as a set (empty for None).
get_nearest_support(supports, price) ==
    LET valid == { x \in supports : x < price - 5 * (price \div 1000) }
    IN  IF valid = {} THEN {} ELSE { SetMax(valid) }

Take(q, n) == IF Len(q) <= n THEN q ELSE SubSeq(q, 1, n)

\* get_resistance_targets(entry_price, stop_loss, min_rr=1.5, count=3).
get_resistance_targets(resistances, entry_price, stop_loss) ==
    LET risk == entry_price - stop_loss
        valid == { x \in resistances :
                     /\ x > entry_price
                     /\ 2 * (x - entry_price) >= 3 * risk }
    IN  IF risk <= 0 THEN <<>> ELSE Take(Ascending(valid), 3)

----------------------------------------------------------------------------
(* strategies/multi_indicator_scored.py: MultiIndicatorScoredStrategy *)

\* The fallback stop: max(ema_8 * 0.997, entry - 1.0 * atr, entry * 0.98).
FallbackStop(d, entry_price) ==
    Max2((d.ema_8 \div 1000) * 997,
         Max2(entry_price - d.atr, (entry_price \div 100) * 98))

\* calculate_stop_loss(entry_price) on the frame d.
calculate_stop_loss(d, entry_price) ==
    LET ns == get_nearest_support(find_support_levels(d.swing_lows, d.high, d.low, d.close),
                                  entry_price)
        sl_sr == (SetMax(ns) \div 100) * 99
    IN  IF ns # {} /\ 5 * (entry_price \div 1000) <= entry_price - sl_sr
                   /\ entry_price - sl_sr <= 5 * (entry_price \div 100)
        THEN sl_sr
        ELSE FallbackStop(d, entry_price)

\* The risk multiple that pads a list of n targets: 1.5 + n * 0.5.
RiskTarget(entry_price, risk, n) == entry_price + (risk * (3 + n)) \div 2

RECURSIVE Pad(_, _, _)
Pad(targets, entry_price, risk) ==
    IF Len(targets) >= 3 THEN targets
    ELSE Pad(Append(targets, RiskTarget(entry_price, risk, Len(targets))), entry_price, risk)

RECURSIVE sorted(_)
sorted(q) ==
    IF q = <<>> THEN <<>>
    ELSE LET m == SetMin(Range(q))
             i == CHOOSE j \in 1..Len(q) : q[j] = m
         IN  <<m>> \o sorted(SubSeq(q, 1, i - 1) \o SubSeq(q, i + 1, Len(q)))

\* calculate_take_profit(entry_price, stop_loss): [tp1, tp2, tp3], and the
\* number of them that came from get_resistance_targets.
calculate_take_profit(d, entry_price, stop_loss) ==
    LET risk == entry_price - stop_loss
        rt == get_resistance_targets(
                  find_resistance_levels(d.swing_highs, d.high, d.low, d.close),
                  entry_price, stop_loss)
    IN  IF Len(rt) >= 3 THEN [tps |-> rt, anchored |-> 3]
        ELSE IF Len(rt) > 0
             THEN [tps |-> Take(sorted(Pad(rt, entry_price, risk)), 3), anchored |-> Len(rt)]
             ELSE [tps |-> <<RiskTarget(entry_price, risk, 0),
                             RiskTarget(entry_price, risk, 1),
                             RiskTarget(entry_price, risk, 2)>>,
                   anchored |-> 0]

\* Scores are kept in thirds of a point (a category with 3 conditions scores
\* met / 3 * 100), confidences in sixtieths of a point.
ConfUnit == 3 * 20

Points(n) == n * ConfUnit

\* analyze(): the three category scores, the weighted confidence
\* 0.40 trend + 0.35 momentum + 0.25 volatility, and the number of categories
\* scoring at least 60.  The frame gives the number of conditions met;
\* condition 2 of the trend ("price > EMA 8") is computed from the frame.
analyze(d) ==
    LET trend_met == d.trend_other + (IF d.close > d.ema_8 THEN 1 ELSE 0)
        trend3 == 3 * 20 * trend_met
        momentum3 == 100 * d.momentum_met
        volatility3 == 100 * d.volatility_met
        strong(score3) == IF score3 >= 3 * 60 THEN 1 ELSE 0
    IN  [confidence |-> 8 * trend3 + 7 * momentum3 + 5 * volatility3,
         strong_conditions |-> strong(trend3) + strong(momentum3) + strong(volatility3),
         trend3 |-> trend3, momentum3 |-> momentum3, volatility3 |-> volatility3]

Has(f, k) == k \in DOMAIN f

\* score_fundamentals(fundamentals): the raw score.  trailing_pe is in units,
\* return_on_equity in 1/100, debt_to_equity and price_to_book in 1/10,
\* market_cap in units; a field that is None is absent from the record.
PeScore(f) ==
    IF ~Has(f, "trailing_pe") \/ f.trailing_pe <= 0 THEN 0
    ELSE IF 10 <= f.trailing_pe /\ f.trailing_pe <= 25 THEN 10
    ELSE IF (5 <= f.trailing_pe /\ f.trailing_pe < 10) \/ (25 < f.trailing_pe /\ f.trailing_pe <= 35) THEN 5
    ELSE IF f.trailing_pe > 50 THEN 0 - 10
    ELSE IF f.trailing_pe < 5 THEN 0 - 5
    ELSE 0

RoeScore(f) ==
    IF ~Has(f, "return_on_equity") THEN 0
    ELSE IF f.return_on_equity >= 20 THEN 10
    ELSE IF f.return_on_equity >= 15 THEN 5
    ELSE IF f.return_on_equity >= 10 THEN 0
    ELSE 0 - 10

DebtScore(f) ==
    IF ~Has(f, "debt_to_equity") THEN 0
    ELSE IF f.debt_to_equity < 5 THEN 10
    ELSE IF f.debt_to_equity < 10 THEN 5
    ELSE IF f.debt_to_equity < 20 THEN 0
    ELSE 0 - 10

PbScore(f) ==
    IF ~Has(f, "price_to_book") \/ f.price_to_book <= 0 THEN 0
    ELSE IF 10 <= f.price_to_book /\ f.price_to_book <= 30 THEN 5
    ELSE IF f.price_to_book > 100 THEN 0 - 5
    ELSE 0

\* A variant of MarketCapScore whose large-cap tier starts above 100000.
MarketCapScore_large_above_100000(f) ==
    IF ~Has(f, "market_cap") THEN 0
    ELSE IF f.market_cap > 100000 THEN 5
    ELSE IF f.market_cap > 10000 THEN 2
    ELSE IF f.market_cap < 1000 THEN 0 - 5
    ELSE 0

MarketCapScore(f) ==
    IF ~Has(f, "market_cap") THEN 0
    ELSE IF f.market_cap > 50000 THEN 5
    ELSE IF f.market_cap > 10000 THEN 2
    ELSE IF f.market_cap < 1000 THEN 0 - 5
    ELSE 0

\* score and adjustment = score / 2 (the adjustment in sixtieths of a point).
score_fundamentals(f) ==
    LET score == IF DOMAIN f = {} THEN 0
                 ELSE PeScore(f) + RoeScore(f) + DebtScore(f) + PbScore(f) + MarketCapScore(f)
    IN  [score |-> score, adjustment |-> (Points(1) * score) \div 2]

----------------------------------------------------------------------------
(* strategies/base.py: BaseStrategy *)

Abs(x) == IF x < 0 THEN 0 - x ELSE x

\* round(a / b) for b > 0, ties to even.
RoundDiv(a, b) ==
    LET q == a \div b
        r == a % b
    IN  IF 2 * r < b THEN q
        ELSE IF 2 * r > b THEN q + 1
        ELSE IF q % 2 = 0 THEN q ELSE q + 1

\* format_signal: every price rounded to 2 decimals; confidence and
\* risk_reward_ratio in hundredths.
format_signal(symbol, confidence, entry, stop_loss, targets) ==
    LET risk == Abs(entry - stop_loss)
        reward == Abs(targets[1] - entry)
    IN  [symbol |-> symbol,
         signal_type |-> "BUY",
         confidence |-> RoundDiv(100 * confidence, ConfUnit),
         entry_price |-> round2(entry),
         stop_loss |-> round2(stop_loss),
         target1 |-> round2(targets[1]),
         target2 |-> round2(targets[2]),
         target3 |-> round2(targets[3]),
         risk |-> round2(risk),
         reward |-> round2(reward),
         risk_reward_ratio |-> IF risk > 0 THEN RoundDiv(100 * reward, risk) ELSE 0]

----------------------------------------------------------------------------
(* generate_signal and signal_generator_scored.py: generate_signals *)

\* A variant of generate_signal that asks for two strong categories whatever
\* min_confidence is.
generate_signal_two_strong(d, f, min_confidence) ==
    LET analysis == analyze(d)
        final_confidence == Clamp(analysis.confidence + score_fundamentals(f).adjustment,
                                  0, Points(100))
        entry_price == d.close
        stop_loss == calculate_stop_loss(d, entry_price)
        tp == calculate_take_profit(d, entry_price, stop_loss)
    IN  IF final_confidence < min_confidence \/ analysis.strong_conditions < 2
        THEN [emit |-> FALSE, signal |-> <<>>, plan |-> NoPlan]
        ELSE [emit |-> TRUE,
              signal |-> format_signal(d.symbol, final_confidence, entry_price,
                                       stop_loss, tp.tps),
              plan |-> [entry |-> entry_price, stop_loss |-> stop_loss,
                        tps |-> tp.tps, anchored |-> tp.anchored]]

\* generate_signal(fundamentals) of a strategy built with min_confidence:
\* whether a signal is returned, the signal, and the levels it was
\* formatted from.
generate_signal(d, f, min_confidence) ==
    LET analysis == analyze(d)
        final_confidence == Clamp(analysis.confidence + score_fundamentals(f).adjustment,
                                  0, Points(100))
        min_strong == IF min_confidence >= Points(60) THEN 2 ELSE 1
        entry_price == d.close
        stop_loss == calculate_stop_loss(d, entry_price)
        tp == calculate_take_profit(d, entry_price, stop_loss)
    IN  IF final_confidence < min_confidence
        THEN [emit |-> FALSE, signal |-> <<>>, plan |-> NoPlan]
        ELSE IF analysis.strong_conditions < 2 /\ analysis.strong_conditions < min_strong
        THEN [emit |-> FALSE, signal |-> <<>>, plan |-> NoPlan]
        ELSE [emit |-> TRUE,
              signal |-> format_signal(d.symbol, final_confidence, entry_price,
                                       stop_loss, tp.tps),
              plan |-> [entry |-> entry_price, stop_loss |-> stop_loss,
                        tps |-> tp.tps, anchored |-> tp.anchored]]

\* The candles a timeframe needs: 100 for 75m, 50 otherwise.
min_candles(timeframe) == IF timeframe = "75m" THEN 100 ELSE 50

\* generate_signals, one symbol: load the candles; too few of them is a skip.
LoadCandles ==
    /\ pc = "queued"
    /\ pc' = IF frame.ncandles < min_candles(frame.timeframe)
             THEN "insufficient_data" ELSE "loaded"
    /\ UNCHANGED <<frame, planned, all_signals, syncVars, botVars, moreVars, lateVars>>

\* generate_signals, one symbol: build the strategy, generate the signal and
\* append it to the signals of the batch.
GenerateSignal ==
    /\ pc = "loaded"
    /\ LET g == generate_signal(frame.df, frame.fundamentals, frame.min_confidence)
       IN  /\ planned' = g.plan
           /\ all_signals' = IF g.emit THEN Append(all_signals, g.signal) ELSE all_signals
           /\ pc' = IF g.emit THEN "signal" ELSE "no_signal"
    /\ UNCHANGED <<frame, syncVars, botVars, moreVars, lateVars>>

\* The frames the planner is run on.  Prices in paise around 100.00 INR; the
\* last candle's high and low are given by their distances from its close.
LastCandles == { <<0, 0>>, <<100, 100>> }
SwingLows == { {}, {9700}, {9500, 9200}, {9950} }
SwingHighs == { {}, {10300}, {10300, 10700}, {10300, 10700, 11200, 12000} }
Ema8s == { 9900, 10000, 10030, 10031 }
Atrs == { 50, 150, 400 }

ScaleSet(S) == { Paise(x) : x \in S }

NoFundamentals == <<>>

GoodFundamentals ==
    [trailing_pe |-> 18, return_on_equity |-> 22, debt_to_equity |-> 4,
     price_to_book |-> 25, market_cap |-> 80000]

Frames(closes, others, moms, vols) ==
    { [symbol |-> "A", close |-> Paise(c), high |-> Paise(c + hl[1]), low |-> Paise(c - hl[2]),
       ema_8 |-> Paise(e), atr |-> Paise(a),
       swing_lows |-> ScaleSet(sl), swing_highs |-> ScaleSet(sh),
       trend_other |-> to, momentum_met |-> mm, volatility_met |-> vm] :
         c \in closes, hl \in LastCandles, e \in Ema8s, a \in Atrs,
         sl \in SwingLows, sh \in SwingHighs, to \in others, mm \in moms, vm \in vols }

InitPlan ==
    /\ SyncIdle
    /\ BotIdle
    /\ MoreIdle
    /\ frame \in [symbol : {"A"}, ncandles : {49, 365}, timeframe : {"1d"},
                  min_confidence : {Points(65), Points(50)},
                  fundamentals : {NoFundamentals, GoodFundamentals},
                  df : Frames({10000, 9970}, {2, 4}, {1, 3}, {0, 2})]
    /\ pc = "queued"
    /\ planned = NoPlan
    /\ all_signals = <<>>

NextPlan ==
    \/ LoadCandles
    \/ GenerateSignal

SpecPlan == InitPlan /\ [][NextPlan]_vars

\* The planner on frames whose categories score trend 60 or 80, momentum 67
\* and volatility 33, with fundamentals that differ in their market cap.
ScoredFundamentals ==
    { NoFundamentals, GoodFundamentals,
      [GoodFundamentals EXCEPT !.market_cap = 30000],
      [GoodFundamentals EXCEPT !.market_cap = 500] }

InitScore ==
    /\ SyncIdle
    /\ BotIdle
    /\ MoreIdle
    /\ frame \in [symbol : {"A"}, ncandles : {49, 365}, timeframe : {"1d"},
                  min_confidence : {Points(65)},
                  fundamentals : ScoredFundamentals,
                  df : Frames({10000}, {3}, {2}, {1})]
    /\ pc = "queued"
    /\ planned = NoPlan
    /\ all_signals = <<>>

SpecScore == InitScore /\ [][NextPlan]_vars

\* The planner on frames whose stop is the fallback or a support below the
\* entry, with resistances at, below and above the risk multiples of the entry.
PaddedFrames ==
    { [symbol |-> "A", close |-> Paise(10000), high |-> Paise(10000), low |-> Paise(10000),
       ema_8 |-> Paise(e), atr |-> Paise(a),
       swing_lows |-> ScaleSet(sl), swing_highs |-> ScaleSet(sh),
       trend_other |-> 4, momentum_met |-> 3, volatility_met |-> vm] :
         e \in {9900, 10000}, a \in {50, 150}, sl \in { {}, {9700} },
         sh \in { {}, {10100}, {10075, 10125}, {10100, 10125}, {10300}, {10225, 10300} },
         vm \in {0, 2} }

InitPad ==
    /\ SyncIdle
    /\ BotIdle
    /\ MoreIdle
    /\ frame \in [symbol : {"A"}, ncandles : {49, 365}, timeframe : {"1d"},
                  min_confidence : {Points(65)},
                  fundamentals : {NoFundamentals, GoodFundamentals},
                  df : PaddedFrames]
    /\ pc = "queued"
    /\ planned = NoPlan
    /\ all_signals = <<>>

SpecPad == InitPad /\ [][NextPlan]_vars

----------------------------------------------------------------------------
(* data/resample.py: TimeframeResampler.  A 15-minute candle starts every
   quarter-hour of the session 09:15-15:30 (25 of them a day). *)

SessionOpen == 9 * Hour + 1

\* Settings.MARKET_CLOSE, '15:30'.
MARKET_CLOSE == 15 * Hour + 2

SessionCandles == MARKET_CLOSE - SessionOpen

\* A 15-minute candle of the store; its prices and volume vary with its time.
Bar(t) ==
    [time |-> t, open |-> 100 + (t % 7), high |-> 110 + (t % 3), low |-> 90 - (t % 4),
     close |-> 100 + (t % 5), volume |-> 10 + (t % 6)]

\* The first n candles of the session of day d.
SessionBars(d, n) == { Bar(At(d, 0, 0) + SessionOpen + k) : k \in 0..(n - 1) }

\* What the DatetimeIndex of the frame read from the database counts its days
\* from, as a distance from midnight in Asia/Kolkata: 0 for an index in local
\* time, 05:30 for one in UTC.
IndexMidnights == { 0, 5 * Hour + 2 }

RECURSIVE SumVolume(_)
SumVolume(rows) ==
    IF rows = {} THEN 0
    ELSE LET r == CHOOSE x \in rows : TRUE IN r.volume + SumVolume(rows \ {r})

\* .agg({'open': 'first', 'high': 'max', 'low': 'min', 'close': 'last',
\* 'volume': 'sum'}) on the rows of one bin, labelled with its left edge.
Agg(label, rows) ==
    LET first == CHOOSE r \in rows : \A x \in rows : r.time <= x.time
        last == CHOOSE r \in rows : \A x \in rows : r.time >= x.time
    IN  [time |-> label, open |-> first.open,
         high |-> SetMax({ r.high : r \in rows }),
         low |-> SetMin({ r.low : r \in rows }),
         close |-> last.close, volume |-> SumVolume(rows)]

\* The left edge of the bin of t in df.resample(f'{width}min'): bins of the
\* given width (in quarter-hours) are counted from origin='start_day', the
\* midnight of the day of the first row of the frame.
bin_edge(t, width, first, midnight) ==
    LET origin == ((first - midnight) \div Day) * Day + midnight
    IN  origin + ((t - origin) \div width) * width

RECURSIVE Rows(_, _, _, _, _)
Rows(labels, df, width, first, midnight) ==
    IF labels = {} THEN <<>>
    ELSE LET b == SetMin(labels)
         IN  <<Agg(b, { r \in df : bin_edge(r.time, width, first, midnight) = b })>>
               \o Rows(labels \ {b}, df, width, first, midnight)

\* df.resample(...).agg(...) followed by dropna(): a bin without rows has NaN
\* prices and is dropped, every other bin gives a candle.
resample(df, width, midnight) ==
    IF df = {} THEN <<>>
    ELSE LET first == SetMin({ r.time : r \in df })
         IN  Rows({ bin_edge(r.time, width, first, midnight) : r \in df },
                  df, width, first, midnight)

\* relativedelta(months=1), for a month of 30 days.
Month == 30 * Day

\* resample_to_75m(symbol, start_date, end_date): the 15m rows are read and
\* resampled in batches of a month from start_date, and concatenated.
RECURSIVE MonthlyBatches(_, _, _, _)
MonthlyBatches(rows, current_start, end_date, midnight) ==
    IF current_start >= end_date THEN <<>>
    ELSE LET current_end == Min2(current_start + Month, end_date)
             df_month == { r \in rows : current_start <= r.time /\ r.time < current_end }
         IN  resample(df_month, 5, midnight)
               \o MonthlyBatches(rows, current_end, end_date, midnight)

resample_to_75m(symbol, start_date, end_date, midnight) ==
    /\ df_75m' = [call |-> "resample_to_75m", symbol |-> symbol, minutes |-> 75,
                  rows |-> { r \in store[<<symbol, "15m">>] :
                               start_date <= r.time /\ r.time < end_date },
                  out |-> MonthlyBatches(store[<<symbol, "15m">>], start_date, end_date,
                                         midnight)]
    /\ UNCHANGED <<fundamentals, upserted, run, syncVars, planVars, botVars, moreVars>>

\* resample_to_custom(symbol, source_timeframe, target_minutes, start_date,
\* end_date): one query (time >= start_date AND time <= end_date), one frame.
resample_to_custom(symbol, source_timeframe, target_minutes, start_date, end_date, midnight) ==
    /\ LET df == { r \in store[<<symbol, source_timeframe>>] :
                     start_date <= r.time /\ r.time <= end_date }
       IN  df_75m' = [call |-> "resample_to_custom", symbol |-> symbol,
                      minutes |-> target_minutes, rows |-> df,
                      out |-> resample(df, target_minutes \div 15, midnight)]
    /\ UNCHANGED <<fundamentals, upserted, run, syncVars, planVars, botVars, moreVars>>

\* The 15m series of A: the first candles of Monday's session, and possibly
\* of Tuesday's.
InitResample ==
    /\ PlanIdle /\ BotIdle /\ Idle /\ MoreIdle
    /\ now = At(2, 0, 0)
    /\ nbatches = 0
    /\ \E n0 \in {3, 5, 7, 10, SessionCandles}, n1 \in {0, 5, 7, SessionCandles} :
          store = [k \in Keys |-> IF k = <<"A", "15m">>
                                  THEN SessionBars(0, n0) \cup SessionBars(1, n1)
                                  ELSE {}]

\* end_date is now; start_date is a year (of twelve months) before it, or
\* such that a batch ends on Tuesday at 12:00.
NextResample ==
    \/ \E start_date \in { At(2, 0, 0) - 12 * Month, At(1, 12, 0) - 12 * Month },
          midnight \in IndexMidnights :
          resample_to_75m("A", start_date, now, midnight)
    \/ \E target_minutes \in {45, 75}, midnight \in IndexMidnights :
          resample_to_custom("A", "15m", target_minutes, At(0, 0, 0), now, midnight)

SpecResample == InitResample /\ [][NextResample]_vars
----------------------------------------------------------------------------
(* scripts/signals/daily_signals_scored.py: main(), one run of the batch *)

MaxRunSymbols == 2

\* args.symbols
RunSymbols == Take(<<"A", "B", "C">>, MaxRunSymbols)

\* What generate_signals does with one symbol: too few candles, no signal, a
\* signal with a confidence (hundredths of a point), or an exception, which it
\* logs.
SymbolOutcomes ==
    { [kind |-> k, confidence |-> 0] : k \in {"insufficient", "no_signal", "error"} }
      \cup { [kind |-> "signal", confidence |-> c] : c \in {7000, 9500} }

\* format_summary_message(signals): the text, by what it states.
format_summary_message(signals) ==
    IF signals = <<>>
    THEN [text |-> "No signals generated today.", total |-> 0, high_conf |-> 0,
          med_conf |-> 0, low_conf |-> 0, symbols |-> <<>>]
    ELSE [text |-> "Total Signals",
          total |-> Len(signals),
          high_conf |-> Len(SelectSeq(signals, LAMBDA g : g.confidence > 9000)),
          med_conf |-> Len(SelectSeq(signals, LAMBDA g : 7500 <= g.confidence
                                                           /\ g.confidence <= 9000)),
          low_conf |-> Len(SelectSeq(signals, LAMBDA g : g.confidence < 7500)),
          symbols |-> [n \in 1..Min2(Len(signals), 5) |-> signals[n].symbol]]

\* One iteration of the loop of generate_signals.
generate_signals(o) ==
    /\ run.phase = "generate"
    /\ run.i < Len(run.args.symbols)
    /\ run' = [run EXCEPT
                 !.i = @ + 1,
                 !.insufficient = IF o.kind = "insufficient" THEN @ + 1 ELSE @,
                 !.errors = IF o.kind = "error" THEN @ + 1 ELSE @,
                 !.signals = IF o.kind = "signal"
                             THEN Append(@, [symbol |-> run.args.symbols[run.i + 1],
                                             confidence |-> o.confidence])
                             ELSE @]
    /\ UNCHANGED <<fundamentals, upserted, df_75m, syncVars, planVars, botVars, moreVars>>

\* generate_signals returns; the sentiment stage, in which
\* NewsSentimentAnalyzer(compact_mode=True) raises TypeError, leaves the
\* signals as they are; the signals are displayed.
display ==
    /\ run.phase = "generate"
    /\ run.i = Len(run.args.symbols)
    /\ run' = [run EXCEPT
                 !.phase = "notify",
                 !.printed = Append(@, IF run.signals = <<>>
                                       THEN "No signals generated today."
                                       ELSE "SIGNALS GENERATED")]
    /\ UNCHANGED <<fundamentals, upserted, df_75m, syncVars, planVars, botVars, moreVars>>

\* "if not args.test and not args.no_notify and signals": the notifier is
\* built (it raises when it is not configured), the messages and the summary
\* are formatted and send_all_notifications starts.
notify(configured) ==
    /\ run.phase = "notify"
    /\ IF ~run.args.test /\ ~run.args.no_notify /\ run.signals # <<>>
       THEN IF configured
            THEN /\ run' = [run EXCEPT !.phase = "sending",
                                       !.summary = format_summary_message(run.signals)]
                 /\ outbox' = [broadcast_to_users |-> TRUE,
                               signals |-> run.signals,
                               subscribers |-> is_active,
                               messages |-> format_messages(run.signals),
                               priorities |-> format_priorities(run.signals),
                               i |-> 0, phase |-> "messages",
                               sent |-> 0, priority_sent |-> 0, failed |-> 0]
            ELSE /\ run' = [run EXCEPT !.phase = "complete",
                                       !.printed = Append(@, "Telegram not configured")]
                 /\ UNCHANGED outbox
       ELSE /\ run' = [run EXCEPT !.phase = "complete"]
            /\ UNCHANGED outbox
    /\ UNCHANGED <<is_active, sends, calls, inserted, enrich, fundamentals, upserted, df_75m,
                   syncVars, planVars, botVars>>

\* asyncio.run(send_all_notifications()) returns the statistics of
\* send_messages, which are printed.
complete ==
    /\ run.phase = "sending"
    /\ outbox.phase = "done"
    /\ run' = [run EXCEPT !.phase = "complete",
                          !.printed = Append(@, "Telegram notifications"),
                          !.stats = [sent |-> outbox.sent,
                                     priority_sent |-> outbox.priority_sent,
                                     failed |-> outbox.failed]]
    /\ UNCHANGED <<fundamentals, upserted, df_75m, syncVars, planVars, botVars, moreVars>>

InitRun ==
    /\ SyncIdle /\ PlanIdle /\ BotIdle
    /\ inserted = <<>>
    /\ enrich = NoEnrich
    /\ fundamentals = <<>>
    /\ upserted = <<>>
    /\ df_75m = <<>>
    /\ is_active \in SUBSET Subscribers
    /\ outbox = NoOutbox
    /\ sends = <<>>
    /\ calls = <<>>
    /\ \E test \in BOOLEAN, no_notify \in BOOLEAN, sentiment \in BOOLEAN :
          run = [NoRun EXCEPT
                   !.args = [test |-> test, no_notify |-> no_notify, sentiment |-> sentiment,
                             timeframe |-> "1d", symbols |-> RunSymbols],
                   !.phase = "generate"]

NextRun ==
    \/ \E o \in SymbolOutcomes : generate_signals(o)
    \/ display
    \/ \E configured \in BOOLEAN : notify(configured)
    \/ \E dbo \in DbOutcomes, out \in [1..Cardinality(Subscribers) -> SendOutcomes] :
          send_messages(dbo, out)
    \/ \E dbo \in DbOutcomes, out \in [1..Cardinality(Subscribers) -> SendOutcomes] :
          send_summary(dbo, out)
    \/ complete

SpecRun == InitRun /\ [][NextRun]_vars
----------------------------------------------------------------------------
(* analysis/on_demand_analyzer.py: OnDemandAnalyzer *)

\* cache_key = f"{symbol}_{now:%Y%m%d%H}": the symbol and the clock hour.
cache_key(symbol, t) == <<symbol, t \div Hour>>

\* INTERACTIVE_BOT_CACHE_TTL, 3600 seconds by default.
cache_ttl == Hour

\* The cache check of analyze_symbol: the entry under the key of this hour,
\* if (now - cache_time).seconds < cache_ttl; a set (empty for a miss).
CacheLookup(c, symbol, t) ==
    { e \in c : /\ e.key = cache_key(symbol, t)
                /\ (t - e.timestamp) % Day < cache_ttl }

\* self.cache[cache_key] = {'data': analysis, 'timestamp': now}; by is the
\* request whose build made the analysis.
CacheStore(c, symbol, t, by) ==
    { e \in c : e.key # cache_key(symbol, t) }
        \cup { [key |-> cache_key(symbol, t), timestamp |-> t, by |-> by] }

\* The steps of analyze_symbol after a cache miss, in order.
BuildSteps == <<"download", "fundamentals", "sentiment", "ai", "technical">>

NextStep(at) ==
    LET i == CHOOSE j \in 1..Len(BuildSteps) : BuildSteps[j] = at
    IN  BuildSteps[i + 1]

----------------------------------------------------------------------------
(* notifications/interactive_bot.py: InteractiveTradingBot, and the handlers *)
(* scripts/telegram_bot.py registers                                        *)

Users == { "u1", "u2" }

\* The symbols _symbol_exists finds (in the instruments table or at the vendor).
Listed == { "A", "B" }

_symbol_exists(symbol) == symbol \in Listed

_check_user_access(user) == user \in active

\* The build in progress for a symbol when an update arrives (0 for none).
BuildOf(symbol) ==
    IF \E t \in tasks : t.symbol = symbol
    THEN (CHOOSE t \in tasks : t.symbol = symbol).id
    ELSE 0

\* An update arrives from Telegram and is put on the update queue:
\* "/analyze SYMBOL" (command), "/analyze" or the analyze button (prompt),
\* a text message (text), an "analyze_SYMBOL" button (button).
Receive(user, kind, symbol) ==
    /\ received < MaxReceived
    /\ received' = received + 1
    /\ requests' = [requests EXCEPT ![received + 1] =
                       [user |-> user, kind |-> kind, symbol |-> symbol,
                        during |-> BuildOf(symbol), outcome |-> "queued",
                        from |-> 0, started |-> 0, ended |-> 0]]
    /\ updates' = Append(updates, received + 1)
    /\ UNCHANGED <<clock, active, waiting, tasks, cache, syncVars, planVars, moreVars, lateVars>>

Tick ==
    /\ clock < MaxTicks * (Hour \div 2)
    /\ clock' = clock + (Hour \div 2)
    /\ UNCHANGED <<active, waiting, updates, requests, received, tasks, cache,
                   syncVars, planVars, moreVars, lateVars>>

\* Application.builder().token(...).build(): concurrent_updates is off, the
\* next update is processed when the handler of the previous one returned.
CanProcessUpdateConcurrently == TRUE

CanProcessUpdate == tasks = {}

Reply(id, outcome, from) ==
    LET r == requests[id]
    IN  requests' = [requests EXCEPT ![id] =
                        [r EXCEPT !.outcome = outcome, !.from = from,
                                  !.started = IF r.outcome = "queued" THEN clock
                                              ELSE r.started,
                                  !.ended = clock]]

\* analyze_symbol(symbol), up to the end of the cache check: the cached
\* analysis is returned, or the build begins.
analyze_symbol(id) ==
    LET hit == CacheLookup(cache, requests[id].symbol, clock)
    IN  IF hit # {}
        THEN /\ Reply(id, "cached", (CHOOSE e \in hit : TRUE).by)
             /\ UNCHANGED tasks
        ELSE /\ Reply(id, "building", 0)
             /\ tasks' = tasks \cup { [id |-> id, symbol |-> requests[id].symbol,
                                       at |-> BuildSteps[1]] }

\* _process_analysis(update, symbol), up to the call of analyze_symbol.
_process_analysis(id) ==
    IF ~_symbol_exists(requests[id].symbol)
    THEN Reply(id, "not_found", 0) /\ UNCHANGED tasks
    ELSE analyze_symbol(id)

Next1 == Head(updates)

\* CommandHandler('analyze') as entry point of the conversation.
analyze_command ==
    /\ CanProcessUpdate /\ updates # <<>>
    /\ requests[Next1].kind \in {"command", "prompt"}
    /\ requests[Next1].user \notin waiting
    /\ updates' = Tail(updates)
    /\ IF ~_check_user_access(requests[Next1].user)
       THEN Reply(Next1, "denied", 0) /\ UNCHANGED <<tasks, waiting>>
       ELSE IF requests[Next1].kind = "command"
       THEN _process_analysis(Next1) /\ UNCHANGED waiting
       ELSE /\ Reply(Next1, "prompt", 0)
            /\ waiting' = waiting \cup { requests[Next1].user }
            /\ UNCHANGED tasks
    /\ UNCHANGED <<clock, active, received, cache, syncVars, planVars, moreVars, lateVars>>

\* In WAITING_FOR_SYMBOL the conversation takes no command but /cancel:
\* MessageHandler(filters.COMMAND, unknown_command) answers.
unknown_command ==
    /\ CanProcessUpdate /\ updates # <<>>
    /\ requests[Next1].kind \in {"command", "prompt"}
    /\ requests[Next1].user \in waiting
    /\ updates' = Tail(updates)
    /\ Reply(Next1, "unknown", 0)
    /\ UNCHANGED <<clock, active, waiting, received, tasks, cache, syncVars, planVars, moreVars, lateVars>>

\* handle_symbol: the text of a user in WAITING_FOR_SYMBOL, up to the call
\* of analyze_symbol.  It returns WAITING_FOR_SYMBOL for an unknown symbol
\* and ConversationHandler.END after the analysis.
handle_symbol ==
    /\ CanProcessUpdate /\ updates # <<>>
    /\ requests[Next1].kind = "text"
    /\ requests[Next1].user \in waiting
    /\ updates' = Tail(updates)
    /\ IF ~_symbol_exists(requests[Next1].symbol)
       THEN Reply(Next1, "not_found", 0) /\ UNCHANGED <<tasks, waiting>>
       ELSE /\ analyze_symbol(Next1)
            /\ waiting' = IF CacheLookup(cache, requests[Next1].symbol, clock) # {}
                          THEN waiting \ { requests[Next1].user }
                          ELSE waiting
    /\ UNCHANGED <<clock, active, received, cache, syncVars, planVars, moreVars, lateVars>>

\* A text outside a conversation matches no handler.
NoHandler ==
    /\ CanProcessUpdate /\ updates # <<>>
    /\ requests[Next1].kind = "text"
    /\ requests[Next1].user \notin waiting
    /\ updates' = Tail(updates)
    /\ Reply(Next1, "ignored", 0)
    /\ UNCHANGED <<clock, active, waiting, received, tasks, cache, syncVars, planVars, moreVars, lateVars>>

\* button_callback for an "analyze_SYMBOL" button.
button_callback ==
    /\ CanProcessUpdate /\ updates # <<>>
    /\ requests[Next1].kind = "button"
    /\ updates' = Tail(updates)
    /\ IF requests[Next1].user \notin active
       THEN Reply(Next1, "denied", 0) /\ UNCHANGED tasks
       ELSE _process_analysis(Next1)
    /\ UNCHANGED <<clock, active, waiting, received, cache, syncVars, planVars, moreVars, lateVars>>

\* reject_command of the admin, "/reject <user_id>": deactivate_user sets
\* is_active = false; the conversation state of the user is not touched.
reject_command(user) ==
    /\ CanProcessUpdate
    /\ user \in active
    /\ active' = active \ {user}
    /\ UNCHANGED <<clock, waiting, updates, requests, received, tasks, cache,
                   syncVars, planVars, moreVars, lateVars>>

\* The handler returns: a handle_symbol conversation ends.
HandlerReturns(t) ==
    /\ tasks' = tasks \ {t}
    /\ waiting' = IF requests[t.id].kind = "text"
                  THEN waiting \ { requests[t.id].user } ELSE waiting

\* Step 1 of analyze_symbol: _download_ohlcv; no data or fewer than 50
\* candles raises ValueError, which the handler answers with an error text.
_download_ohlcv(t, enough) ==
    /\ t \in tasks /\ t.at = "download"
    /\ IF enough
       THEN /\ tasks' = (tasks \ {t}) \cup { [t EXCEPT !.at = NextStep(t.at)] }
            /\ UNCHANGED <<requests, waiting>>
       ELSE /\ Reply(t.id, "error", 0)
            /\ HandlerReturns(t)
    /\ UNCHANGED <<clock, active, updates, received, cache, syncVars, planVars, moreVars, lateVars>>

\* Steps 2 to 4: _get_fundamentals, _analyze_news_sentiment, _get_ai_analysis
\* (each catches its own exceptions).
BuildStep(t) ==
    /\ t \in tasks /\ t.at \in {"fundamentals", "sentiment", "ai"}
    /\ tasks' = (tasks \ {t}) \cup { [t EXCEPT !.at = NextStep(t.at)] }
    /\ UNCHANGED <<clock, active, waiting, updates, requests, received, cache,
                   syncVars, planVars, moreVars, lateVars>>

\* Steps 5 and 6: the technical analysis, the analysis is compiled and cached;
\* the handler sends it.
Compile(t) ==
    /\ t \in tasks /\ t.at = "technical"
    /\ cache' = CacheStore(cache, t.symbol, clock, t.id)
    /\ Reply(t.id, "built", t.id)
    /\ HandlerReturns(t)
    /\ UNCHANGED <<clock, active, updates, received, syncVars, planVars, moreVars, lateVars>>

InitBot ==
    /\ SyncIdle /\ PlanIdle /\ MoreIdle
    /\ clock = 0
    /\ active = {"u1"}
    /\ waiting = {}
    /\ updates = <<>>
    /\ requests = [i \in 1..MaxReceived |-> NoRequest]
    /\ received = 0
    /\ tasks = {}
    /\ cache = {}

NextBot ==
    \/ \E u \in Users : \E s \in Listed \cup {"X"} :
          Receive(u, "command", s) \/ Receive(u, "text", s)
    \/ \E u \in Users : Receive(u, "prompt", "")
    \/ \E u \in Users : \E s \in Listed : Receive(u, "button", s)
    \/ Tick
    \/ analyze_command
    \/ unknown_command
    \/ handle_symbol
    \/ NoHandler
    \/ button_callback
    \/ \E t \in tasks : \E enough \in BOOLEAN : _download_ohlcv(t, enough)
    \/ \E t \in tasks : BuildStep(t)
    \/ \E t \in tasks : Compile(t)

SpecBot == InitBot /\ [][NextBot]_vars

\* The bot with an admin who deactivates users while it runs.
NextAccess ==
    \/ NextBot
    \/ \E u \in Users : reject_command(u)

SpecAccess == InitBot /\ [][NextAccess]_vars

----------------------------------------------------------------------------
(* Claims about the sync scheduler *)

Finished(s) == batch.active /\ fut[s] \in {"done", "collected"}

\* The task of s ran update_latest_data to its end on a series that had data.
Incremental(s) ==
    /\ Finished(s)
    /\ ~batch.full_download
    /\ fres[s].status = "success"
    /\ fetched[s].before # {}

LatestBefore(s) == SetMax(TimesOf(fetched[s].before))

ErrorCount(kind) ==
    Cardinality({ i \in 1..Len(results.details) :
                    /\ results.details[i].status = "error"
                    /\ results.details[i].error_type = kind })

\* The vendor fetch of s was rate-limited and every other task's fetch went well.
OnlyRateLimited(s) ==
    /\ AllCollected
    /\ fetched[s].vo \in RateLimitedOutcomes
    /\ \A o \in Range(batch.symbols) \ {s} :
          fetched[o].vo.kind = "ok" /\ fres[o].status = "success"

\* C1: when the vendor fetch of one task is rate-limited (an empty response
\* that looks like throttling included) and the others complete normally, that
\* task's result is status=error, error kind RateLimited, 0 rows; the others
\* report success; the batch counts exactly one RateLimited failure.
C1_RateLimitReported ==
    \A s \in Symbols :
        OnlyRateLimited(s) =>
            /\ fres[s].status = "error"
            /\ fres[s].error_type = "RATE_LIMIT"
            /\ fres[s].rows = 0
            /\ ErrorCount("RATE_LIMIT") = 1

\* t is a Saturday, a Sunday or a Monday before 09:15.
Corrected(t) == weekday(t) \in {5, 6} \/ (weekday(t) = 0 /\ t % Day < 9 * Hour + 1)

\* C7: in incremental mode without force the per-timeframe threshold decides:
\* a task whose latest candle is within its timeframe's threshold performs no
\* fetch and inserts nothing, one whose latest candle is older does fetch.
C7_ThresholdDecidesSkip ==
    \A s \in Symbols :
        (Incremental(s) /\ ~batch.asked_force /\ ~Corrected(now)) =>
            IF now - LatestBefore(s) <= thresholds(batch.tf)
            THEN fetched[s].req = <<>> /\ fetched[s].after = fetched[s].before
            ELSE fetched[s].req # <<>>

\* The Friday 15:30 before a weekend or Monday pre-market instant.
PriorFridayClose(t) ==
    IF weekday(t) = 0 THEN t - (t % Day) - 3 * Day + 15 * Hour + 2
    ELSE t - (t % Week) + 4 * Day + 15 * Hour + 2

\* C8: on a Saturday, a Sunday or a Monday before 09:15 staleness is computed
\* against the prior Friday 15:30 (stated for the timeframes whose threshold
\* is one day): the task fetches exactly when its latest candle is more than a
\* day older than that Friday 15:30.
C8_WeekendReference ==
    \A s \in Symbols :
        (Incremental(s) /\ ~batch.asked_force /\ Corrected(now)
            /\ batch.tf \in {"1h", "1d"}) =>
            (fetched[s].req # <<>> <=> PriorFridayClose(now) - LatestBefore(s) > 1 * Day)

\* C9: with force set an incremental task always performs the fetch, through
\* every entry point that accepts the flag, and inserts only candles strictly
\* after the latest stored time.
C9_ForceAlwaysFetches ==
    \A s \in Symbols :
        (Incremental(s) /\ batch.asked_force) =>
            /\ fetched[s].req # <<>>
            /\ \A c \in fetched[s].after \ fetched[s].before : c.time > LatestBefore(s)

\* C10: an incremental sync of a series with no stored candle behaves exactly
\* like a full sync: same timeframe-specific maximum period, same rows stored.
C10_EmptyIncrementalIsFull ==
    \A s \in Symbols :
        (Finished(s) /\ ~batch.full_download /\ fres[s].status = "success"
            /\ fetched[s].before = {}) =>
            /\ fetched[s].req = <<_get_period_for_timeframe(batch.tf)>>
            /\ fetched[s].after =
                  download_and_store({}, _get_period_for_timeframe(batch.tf), now,
                                     fetched[s].vo).cs

\* The rows of the successful results among the first n of details.
RECURSIVE SuccessfulRows(_, _)
SuccessfulRows(details, n) ==
    IF n = 0 THEN 0
    ELSE SuccessfulRows(details, n - 1)
           + (IF details[n].status = "success" THEN details[n].rows ELSE 0)

\* One progress line per collected task, numbered 1, 2, ...; the counters of
\* results agree with its details.
ProgressAccounting ==
    /\ progress = [n \in 1..Len(progress) |-> n]
    /\ Len(progress) = Len(results.details)
    /\ Len(progress) <= results.total_tasks
    /\ AllCollected => Len(progress) = results.total_tasks
    /\ \A a, b \in 1..Len(results.details) :
          a # b => results.details[a].symbol # results.details[b].symbol
    /\ \A a \in 1..Len(results.details) : fut[results.details[a].symbol] = "collected"
    /\ results.successful + results.failed = Len(results.details)
    /\ results.total_rows = SuccessfulRows(results.details, Len(results.details))

\* The step reports a task.
Reports == Len(results'.details) = Len(results.details) + 1

Reported == results'.details[Len(results'.details)].symbol

\* C19 as stated: progress is reported once per finished task, the count
\* rising by 1 from 1 to total_tasks, the counters agreeing with the recorded
\* results, and every report is about the task that finished first among
\* those not reported yet.
C19_ProgressInCompletionOrder ==
    /\ []ProgressAccounting
    /\ [][Reports => Reported = Head(waiter.finished_futures)]_vars

\* C19 as amended: the same, the order being the completion order for the
\* tasks that finish after the reporting loop has started; the tasks already
\* finished when it starts are reported first.
C19_ProgressAccountingAndOrder ==
    /\ []ProgressAccounting
    /\ [][Reports =>
            /\ waiter.initial = 0 => Reported = Head(waiter.finished_futures)
            /\ waiter.initial > 0 =>
                  \E n \in 1..waiter.initial : Reported = waiter.finished_futures[n]]_vars

\* Every task of a batch was reported, not in the order of submission; one
\* of them failed and one inserted rows.
C19_Witness ==
    /\ AllCollected
    /\ Len(progress) = 3
    /\ results.failed > 0 /\ results.total_rows > 0
    /\ \E a \in 1..3 : results.details[a].symbol # <<"A", "B", "C">>[a]

\* C20: once the batch is cancelled no task that has not started is started,
\* and when the batch ends every task that did not run is recorded with
\* status error and error kind cancelled.
C20_CancelStopsDispatch ==
    /\ [][batch.interrupted =>
            \A s \in Symbols : fut[s] = "pending" => fut'[s] # "running"]_vars
    /\ [][(batch.interrupted /\ ~batch'.active) =>
            \A s \in Range(batch.symbols) :
                fut[s] # "collected" =>
                    \E n \in 1..Len(results.details) :
                        /\ results.details[n].symbol = s
                        /\ results.details[n].status = "error"
                        /\ results.details[n].error_type = "CANCELLED"]_vars

\* The task of s is the second incremental run of a series whose first
\* incremental run completed.
SecondRun(s) ==
    /\ Finished(s)
    /\ ~batch.full_download
    /\ ~prev.full_download
    /\ prev.tf = batch.tf
    /\ s \in prev.done

\* The vendor has no candle that appeared after the previous run.
NoNewVendorData == ~\E v \in VendorTimes : prev.now < v /\ v <= now

InsertsNothing(s) == fetched[s].after = fetched[s].before /\ fres[s].rows = 0

RerunAfterFetchInsertsNothing ==
    \A s \in Symbols :
        (SecondRun(s) /\ NoNewVendorData /\ s \in prev.fetched) => InsertsNothing(s)

Reinsert(i) ==
    /\ i \in 1..(Len(inserted) - 1)
    /\ inserted[i + 1].key = inserted[i].key
    /\ TimesOf(inserted[i + 1].df) = TimesOf(inserted[i].df)

\* C12: inserting the same candle set a second time adds 0 rows and leaves the
\* series as it was, whatever the values re-inserted; every series always has
\* one candle per time.
C12_InsertIdempotent ==
    /\ \A i \in 1..MaxInserts :
          Reinsert(i) =>
              /\ inserted[i + 1].rows = 0
              /\ inserted[i + 1].after = inserted[i].after
    /\ \A k \in Keys : \A c, d \in store[k] : c.time = d.time => c = d

\* A candle set was re-inserted with values that differ from the stored ones.
C12_Witness ==
    \E i \in 1..MaxInserts :
        /\ Reinsert(i)
        /\ i + 1 = Len(inserted)
        /\ inserted[i].rows > 0
        /\ \E c \in inserted[i + 1].df : c \notin inserted[i].after

----------------------------------------------------------------------------
(* Claims about the broadcast sink *)

\* The users bot.send_message was called for with the n-th message sent.
Recipients(n) ==
    { c.chat_id : c \in { d \in Range(calls) : d.text.body = sends[n].message } }

\* C13: in broadcast mode every message of the batch is attempted for every
\* subscriber active when it is sent, whatever failed before, and a failed
\* delivery shows in the statistics.
C13_FailuresIsolated ==
    outbox.broadcast_to_users =>
        /\ \A n \in 1..Len(sends) : sends[n].active \subseteq Recipients(n)
        /\ (\E c \in Range(calls) : ~c.ok /\ c.text.body # "summary") => outbox.failed > 0

\* C14: in broadcast mode every message of the batch goes to the subscribers
\* that were active when the batch started, whoever was activated or
\* deactivated since.
C14_SnapshotRecipients ==
    outbox.broadcast_to_users =>
        \A n \in 1..Len(sends) : Recipients(n) = outbox.subscribers

\* C15: the messages are handed to send_message in the order in which the
\* pipeline finished their signals, priority or not, and the summary comes
\* after all of them.
C15_PipelineOrder ==
    /\ Len(sends) <= Len(Notified(outbox.signals)) + 1
    /\ \A n \in 1..Len(sends) :
          IF n <= Len(Notified(outbox.signals))
          THEN /\ sends[n].message = Notified(outbox.signals)[n].symbol
               /\ sends[n].priority = (Notified(outbox.signals)[n].confidence > 9000)
          ELSE sends[n].message = "summary"
    /\ \A c, d \in 1..Len(calls) :
          (c < d /\ calls[c].text.body # calls[d].text.body) =>
              \E a, b \in 1..Len(sends) :
                  a < b /\ sends[a].message = calls[c].text.body
                        /\ sends[b].message = calls[d].text.body

\* A broadcast batch whose second message is the priority one was handed to
\* send_message, the summary after it.
C15_Witness ==
    /\ outbox.broadcast_to_users
    /\ outbox.phase = "done"
    /\ Len(sends) = 3
    /\ ~sends[1].priority /\ sends[2].priority
    /\ sends[3].message = "summary"

----------------------------------------------------------------------------
(* Claims about the sentiment stage *)

StageOver == enrich.phase \in {"failed", "enhanced"}

\* The part of a signal the strategy produced.
Base(g) == [symbol |-> g.symbol, confidence |-> g.confidence,
            stop_loss |-> g.stop_loss, target1 |-> g.target1]

\* C16: when the sentiment stage fails as a whole, or enhance_signal raises
\* for a signal, main() goes on with that signal as the strategy produced it:
\* same confidence, stop and target.
C16_BaseSignalKept ==
    StageOver =>
        /\ Len(MainSignals) = Len(enrich.signals)
        /\ \A n \in 1..Len(enrich.signals) :
              (enrich.phase = "failed" \/ n \in enrich.raised) =>
                  MainSignals[n] = enrich.signals[n]

\* enhance_signal raised for a signal whose confidence it had already
\* adjusted, and the batch returned.
C16_Witness ==
    /\ enrich.phase = "enhanced"
    /\ enrich.raised # {}
    /\ \E n \in 1..Len(enrich.signals) :
          n \notin enrich.raised /\ Base(MainSignals[n]) # Base(enrich.signals[n])

\* C17: any two consecutive LLM calls of a batch are at least 7 seconds apart.
C17_SevenSecondsApart ==
    \A k \in 1..(Len(enrich.llm) - 1) : enrich.llm[k + 1] - enrich.llm[k] >= 7

\* C18: an enhanced signal has a confidence in [0, 100] that differs from
\* its original_confidence by at most 20, whatever the LLM answered.
C18_AdjustmentBounded ==
    \A n \in 1..Len(enrich.enhanced) :
        LET g == enrich.enhanced[n]
        IN  g.sentiment =>
              /\ g.confidence >= 0 /\ g.confidence <= 10000
              /\ g.confidence - g.original_confidence <= 2000
              /\ g.original_confidence - g.confidence <= 2000
              /\ g.original_confidence = enrich.signals[n].confidence

\* The LLM answered with an impact out of range and the signal was enhanced.
C18_Witness ==
    \E n \in 1..Len(enrich.enhanced) :
        /\ enrich.enhanced[n].sentiment
        /\ enrich.enhanced[n].confidence = 5000
        /\ enrich.enhanced[n].original_confidence = 7000

----------------------------------------------------------------------------
(* Claims about the planner *)

Emitted == pc = "signal"

\* The signal generate_signals appended last.
Sig == all_signals[Len(all_signals)]

InvariantViolation ==
    \/ planned.stop_loss >= planned.entry
    \/ planned.tps[1] <= planned.entry

\* C3: a planned signal whose stop is at or above entry, or whose target1 is
\* at or below entry, is never emitted.
C3_ViolationNeverEmitted ==
    Emitted => ~InvariantViolation

\* C4: for every emitted signal entry_price < target1 <= target2 <= target3,
\* in all three target cases.
C4_TargetsOrdered ==
    Emitted =>
        /\ Sig.entry_price < Sig.target1
        /\ Sig.target1 <= Sig.target2
        /\ Sig.target2 <= Sig.target3

\* C5: when at least one emitted target is resistance-anchored the ratio
\* (target1 - entry) / (entry - stop) is at least 1.5; when all three targets
\* are risk multiples the ratio is exactly 1.5 (so it is defined: the risk is
\* not zero).
C5_RewardToRisk ==
    Emitted =>
        LET risk == planned.entry - planned.stop_loss
            reward == planned.tps[1] - planned.entry
        IN  IF planned.anchored > 0
            THEN risk > 0 /\ 2 * reward >= 3 * risk
            ELSE risk # 0 /\ 2 * reward = 3 * risk /\ Sig.risk_reward_ratio = 150

----------------------------------------------------------------------------
(* Claims about the interactive bot *)

RequestIds == 1..MaxReceived

\* The builds in progress for a symbol.
Building(s) == { t \in tasks : t.symbol = s }

\* The request reached analyze_symbol (or was turned away as busy).
Served(id) == requests[id].outcome \in {"building", "built", "error", "cached", "busy"}

\* The request arrived while a build of its symbol was in progress.
ArrivedDuringBuild(id) == requests[id].during # 0

----------------------------------------------------------------------------
(* Fundamentals store *)

\* C21: upserting fundamentals for a symbol replaces the whole record: after
\* every upsert that was stored, a typed field that is absent from the new
\* snapshot is unset in the row of the symbol.
C21_UpsertReplacesRecord ==
    \A i \in 1..Len(upserted) :
        upserted[i].stored =>
            \A c \in TypedFields :
                c \notin KeysOf(upserted[i].fundamentals)
                    => c \notin DOMAIN upserted[i].after[upserted[i].symbol]

----------------------------------------------------------------------------
(* Scored strategy: the emission rule and the worked example *)

\* The symbol has been analysed: generate_signal has returned.
Analysed == pc \in {"signal", "no_signal"}

\* The categories of the frame that score at least 60.
StrongCategories ==
    { c \in {"trend3", "momentum3", "volatility3"} : analyze(frame.df)[c] >= 3 * 60 }

\* The confidence after the fundamental adjustment, clamped to [0, 100].
FinalConfidence ==
    Clamp(analyze(frame.df).confidence + score_fundamentals(frame.fundamentals).adjustment,
          0, Points(100))

WorkedExample ==
    /\ Analysed
    /\ frame.fundamentals = GoodFundamentals
    /\ analyze(frame.df).trend3 = 3 * 80
    /\ analyze(frame.df).momentum3 = 200
    /\ analyze(frame.df).volatility3 = 100

\* A confidence in sixtieths of a point, to one decimal (in tenths).
OneDecimal(c) == RoundDiv(10 * c, ConfUnit)

\* C23 as stated: in the worked example the raw fundamental score is 37, the
\* adjustment 18.5 and the final confidence 82.2.
C23_ExampleScores37 ==
    WorkedExample =>
        /\ OneDecimal(analyze(frame.df).confidence) = 637
        /\ score_fundamentals(frame.fundamentals).score = 37
        /\ 2 * score_fundamentals(frame.fundamentals).adjustment = Points(37)
        /\ OneDecimal(FinalConfidence) = 822

\* C23 as amended: in the worked example the market-cap tier contributes +5
\* (80000 > 50000), the raw score is 40, the adjustment 20, and the final
\* confidence 83.7, which is the confidence of the emitted signal.
C23_ExampleScores40 ==
    WorkedExample =>
        /\ OneDecimal(analyze(frame.df).confidence) = 637
        /\ MarketCapScore(frame.fundamentals) = 5
        /\ score_fundamentals(frame.fundamentals).score = 40
        /\ score_fundamentals(frame.fundamentals).adjustment = Points(20)
        /\ OneDecimal(FinalConfidence) = 837
        /\ pc = "signal"
        /\ RoundDiv(all_signals[1].confidence, 10) = 837

\* The worked example was analysed and its signal emitted.
C23_Witness ==
    /\ WorkedExample
    /\ pc = "signal"
    /\ all_signals # <<>>

----------------------------------------------------------------------------
(* Resampling *)

\* The days on which the resampled rows have candles.
DaysOf(rows) == { r.time \div Day : r \in rows }

\* The 75-minute buckets of day d counted from the session open that the
\* rows cover completely (all five 15-minute candles).
WholeBuckets(rows, d) ==
    { b \in { d * Day + SessionOpen + 5 * k : k \in 0..((SessionCandles \div 5) - 1) } :
        \A q \in 0..4 : \E r \in rows : r.time = b + q }

\* The candles the rows should give: one per whole bucket, in time order.
RECURSIVE ExpectedFrom(_, _)
ExpectedFrom(rows, buckets) ==
    IF buckets = {} THEN <<>>
    ELSE LET b == SetMin(buckets)
         IN  <<Agg(b, { r \in rows : b <= r.time /\ r.time < b + 5 })>>
               \o ExpectedFrom(rows, buckets \ {b})

Expected75m(rows) ==
    ExpectedFrom(rows, UNION { WholeBuckets(rows, d) : d \in DaysOf(rows) })

\* C24: resampling 15m candles to 75m uses buckets aligned to the session
\* open and yields one candle per wholly covered bucket (floor(minutes/75) of
\* them for a session prefix), each with open=first, high=max, low=min,
\* close=last, volume=sum; a bucket that is only partly covered yields none.
C24_SessionAlignedBuckets ==
    (df_75m # <<>> /\ df_75m.minutes = 75) =>
        /\ df_75m.out = Expected75m(df_75m.rows)
        /\ Len(df_75m.out) =
              SumVolume({ [day |-> d,
                           volume |-> Cardinality({ r \in df_75m.rows : r.time \div Day = d })
                                        \div 5] : d \in DaysOf(df_75m.rows) })

----------------------------------------------------------------------------
(* The batch run *)

\* The run is over: main() has printed its last line.
RunComplete == run.phase = "complete"

\* Broadcasting is enabled: neither --test nor --no-notify.
BroadcastEnabled == ~run.args.test /\ ~run.args.no_notify

\* C25: every batch run produces a final summary and, when broadcasting is
\* enabled, sends it, including runs that generated no signal or in which
\* symbols or deliveries failed.
C25_SummaryAlwaysSent ==
    RunComplete =>
        /\ run.summary # <<>>
        /\ run.summary.total = Len(run.signals)
        /\ BroadcastEnabled /\ "Telegram not configured" \notin Range(run.printed)
              => \E n \in 1..Len(sends) : sends[n].message = "summary"

----------------------------------------------------------------------------
(* The sentiment stage: lookback and adjustment *)

\* C26: when the pipeline runs with sentiment enabled, the headlines of each
\* signal are fetched with a lookback of 1 day if the pipeline timeframe is
\* 75m and of 3 days if it is 1d.
C26_LookbackByTimeframe ==
    /\ \A n \in 1..Len(enrich.fetched) :
          enrich.fetched[n] = (IF enrich.timeframe = "75m" THEN 1 ELSE 3)
    /\ enrich.phase = "enhanced" => Len(enrich.fetched) = Len(enrich.signals)

\* The signals of the batch that enhance_signal has enriched.
Enriched == { n \in 1..Len(enrich.enhanced) : enrich.enhanced[n].sentiment }

\* The sum of the original confidence and the recorded adjustment.
Adjusted(g) == g.original_confidence + 100 * g.sentiment_adjusted

\* C29 as stated: on every enriched signal, confidence = original_confidence
\* + sentiment_adjusted, also when the confidence is clamped at 0 or 100.
C29_AdjustmentIsChangeApplied ==
    \A n \in Enriched : enrich.enhanced[n].confidence = Adjusted(enrich.enhanced[n])

\* C29 as amended: on every enriched signal, original_confidence is the
\* confidence of the base signal, sentiment_adjusted is within [-20, 20], and
\* confidence = clamp(original_confidence + sentiment_adjusted, 0, 100): the
\* sum itself unless it lies outside [0, 100].
C29_ConfidenceIsClampedSum ==
    \A n \in Enriched :
        LET g == enrich.enhanced[n]
        IN  /\ g.original_confidence = enrich.signals[n].confidence
            /\ 0 - 20 <= g.sentiment_adjusted /\ g.sentiment_adjusted <= 20
            /\ g.confidence = Clamp(Adjusted(g), 0, 10000)
            /\ (0 <= Adjusted(g) /\ Adjusted(g) <= 10000) => g.confidence = Adjusted(g)

\* A batch in which one enriched signal was clamped at 100 and one at 0.
C29_Witness ==
    /\ \E n \in Enriched : /\ enrich.enhanced[n].confidence = 10000
                            /\ Adjusted(enrich.enhanced[n]) > 10000
    /\ \E n \in Enriched : /\ enrich.enhanced[n].confidence = 0
                            /\ Adjusted(enrich.enhanced[n]) < 0

----------------------------------------------------------------------------
(* The level planner: targets and pivots *)

\* C27: the three emitted targets are pairwise distinct and strictly
\* increasing, target1 < target2 < target3; in particular the risk multiples
\* that pad one or two resistance-anchored targets never coincide with an
\* anchored target.
C27_TargetsStrictlyIncreasing ==
    Emitted =>
        /\ planned.tps[1] < planned.tps[2]
        /\ planned.tps[2] < planned.tps[3]
        /\ Sig.target1 < Sig.target2
        /\ Sig.target2 < Sig.target3

\* The pivot levels of the last candle of the analysed frame.
Pivots == find_pivot_levels(frame.df.high, frame.df.low, frame.df.close)

\* C28 as stated: S3 = L - 2(PP - H), where PP = (H + L + C)/3.
C28_S3FromPivotMinusHigh ==
    Analysed =>
        /\ 3 * Pivots.pp = frame.df.high + frame.df.low + frame.df.close
        /\ Pivots.s3 = frame.df.low - 2 * (Pivots.pp - frame.df.high)

\* C28 as amended: S3 = L - 2(H - PP), where PP = (H + L + C)/3.
C28_S3FromHighMinusPivot ==
    Analysed =>
        /\ 3 * Pivots.pp = frame.df.high + frame.df.low + frame.df.close
        /\ Pivots.s3 = frame.df.low - 2 * (frame.df.high - Pivots.pp)

\* A frame whose last candle has its high above the pivot point was
\* analysed, and its S3 is a level below the low.
C28_Witness ==
    /\ Analysed
    /\ frame.df.high > Pivots.pp
    /\ Pivots.s3 < frame.df.low
    /\ Pivots.s3 \in find_support_levels(frame.df.swing_lows, frame.df.high, frame.df.low,
                                          frame.df.close)

(***************************************************************************)
(* The bot: who may have a symbol analysed                                 *)
(***************************************************************************)

\* The handling of request id reaches analyze_symbol in this step.
ReachesAnalyzeSymbol(id) ==
    /\ requests[id].outcome = "queued"
    /\ requests'[id].outcome \in {"cached", "building"}

\* C30: analyze_symbol runs only for approved users: when the handling of a
\* request (command, text or button) reaches analyze_symbol, the user of the
\* request is active at that moment.
C30_OnlyActiveUsersAnalyse ==
    [][\A id \in 1..MaxReceived :
          ReachesAnalyzeSymbol(id) => requests[id].user \in active]_vars

====
